---- MODULE Spec2Model ----
(***************************************************************************)
(* Device Session of CalRunrilla-web: the HTTP handlers of the server      *)
(* package and the background goroutines they start (calibration sampling, *)
(* calibration flash, test loop and its zero updates, stand-alone flash),  *)
(* the calibration accumulation matrices and the compute request; and of   *)
(* the command-line program (package calibration) its flash, its sampling  *)
(* loop and its zero collection.                                           *)
(*                                                                         *)
(* Go indices are 0-based; rows and columns of matrices are TLA+ sequences *)
(* and therefore 1-based: row `index` of the code is row index+1 here.     *)
(* A nil matrix / nil LC slice is the empty sequence <<>>.                 *)
(* Goroutines have no identity in the program, so the running goroutines   *)
(* are a bag of records.                                                   *)
(***************************************************************************)
EXTENDS Integers, Sequences, FiniteSets, Bags, TLC

\* ---- bounds of the model -------------------------------------------------
MaxOps == 2          \* goroutines alive at the same time
NBars == 2           \* len(p.BARS) of the uploaded config
NLCs == 1            \* bars.NLCs, active load cells per bar
FactorVals == {7}    \* factor vectors the numerics can return
IgnoreTarget == 2    \* parameters.IGNORE: iterations whose readings are dropped
AvgTarget == 3       \* parameters.AVG: iterations that are averaged
Reading == 8         \* what an unloaded channel of the device reads
CfgBars == 2         \* most bars of a command-line configuration file
CfgLCs == 2          \* most active load cells per bar of such a file
MaxPayload == 2      \* longest payload enumerated byte by byte

\* ---- program constants ---------------------------------------------------
HandshakeRounds == 6
WriteAttempts == 3
FactorReadAttempts == 3
TestZeroChCap == 1
CR == 13             \* '\r'
LF == 10             \* '\n'
Pipe == 124          \* '|'
Digit0 == 48         \* '0'
CrcFeedback == 34832 \* 0x8810
ScanPorts == 64      \* COM1..COM64
TraceSample == 5     \* scan probes that get a trace entry

NoMatrix == <<>>
NoLC == <<>>
NoRecord == <<>>
NoZeros == <<>>
NoResult == [err |-> "", data |-> <<>>]
NoPort == 0          \* the empty port name; COMi is i, other names are above ScanPorts

Cols == NBars * NLCs
Calibs == 3 * (NBars - 1)
NLoads == 3 * (NBars - 1) * NLCs

\* one averaged, flattened reading vector (bar-major, channel-minor)
Flat(b) == [c \in 1..Cols |-> b + c]

VARIABLES
    bars,          \* d.bars (with d.params, d.configID): FALSE = nil
    opCancel,      \* d.opCancel # nil
    opKind,        \* d.opKind
    calAd0,        \* d.calAd0
    calAdv,        \* d.calAdv
    calReceived,   \* d.calReceived
    calStepsLen,   \* len(d.calSteps)
    lc,            \* p.BARS[i].LC of the connected config's PARAMETERS
    calCalibratedID, \* d.calCalibratedID: 0 = "", 1 = the id of the stored artifact
    out,           \* output of the last step: the HTTP response of a handler, or the
                   \* Type of the WSMessage a goroutine broadcast before it returned ("": none)
    ops,           \* the bag of background goroutines (and the command-line process)
    storeRaw,      \* Raw of the calibrated record of s.store (NoRecord: none was put)
    testZeros,     \* d.testZeros
    testZeroCh,    \* d.testZeroCh, a channel of capacity 1: the sequence of queued vectors
    testZeroing,   \* d.testZeroing # 0
    lastCollected  \* history: the vector the latest finished collectAveragedZeros returned

vars == <<bars, opCancel, opKind, calAd0, calAdv, calReceived, calStepsLen,
          lc, calCalibratedID, out, ops, storeRaw, testZeros, testZeroCh,
          testZeroing, lastCollected>>

sessVars == <<bars, opCancel, opKind>>
calVars == <<calAd0, calAdv, calReceived, calStepsLen>>
testVars == <<testZeros, testZeroCh, testZeroing, lastCollected>>

\* ---- calibration plan (buildCalibrationPlan) -----------------------------
PlanLen == 1 + NLoads
StepKind(i) == IF i = 0 THEN "zero" ELSE "weight"
StepRow(i) == IF i = 0 THEN 0 ELSE i - 1      \* step.Index, 0-based row of adv
StepInputs == {0 - 1, 0, 1, PlanLen - 1, PlanLen}   \* boundary values of req.StepIndex
MaxReceived == PlanLen        \* cap of the received-step counter
\* the averaged readings of the load the operator placed for step i
SampleReading(i) == Flat(10 * (i + 1))

\* ---- matrices ------------------------------------------------------------
NewMatrix(rows, cols) == [r \in 1..rows |-> [c \in 1..cols |-> 0]]

UpdateMatrixZero(ads, calibs, nlcs) ==
    LET nbars == Len(ads) \div nlcs
    IN  [r \in 1..(calibs * nlcs) |-> [c \in 1..(nbars * nlcs) |-> ads[c]]]

\* variant: the 0-based index is used as a 1-based row
UpdateMatrixWeight_rowShift(adc, ads, index, nlcs) ==
    LET nbars == Len(ads) \div nlcs
    IN  [adc EXCEPT ![IF index = 0 THEN 1 ELSE index] =
            [c \in 1..Len(@) |-> IF c <= nbars * nlcs THEN ads[c] ELSE @[c]]]

UpdateMatrixWeight(adc, ads, index, nlcs) ==
    LET nbars == Len(ads) \div nlcs
    IN  [adc EXCEPT ![index + 1] =
            [c \in 1..Len(@) |-> IF c <= nbars * nlcs THEN ads[c] ELSE @[c]]]

\* ---- goroutines ----------------------------------------------------------
\* kind: the operation; pc: position in the goroutine; ctx: TRUE once its
\* context is cancelled; own: d.opCancel is the cancel function of its
\* context; open: the port it captured is still open; n, bar: attempt or
\* round and bar of a flash; notReady: bars that have not answered "Enter";
\* failed: bars a command-line flash gave up; zeros: the vector a zero
\* update or a sampling function has collected; skipped: the last timer
\* tick of a snapshot loop produced no snapshot; samples, sums, count: the
\* accumulators of manipulateADC and collectAveragedZeros; nbars, nlcs:
\* len(parameters.BARS) and bars.NLCs of a command-line run; plan: the kinds
\* of the steps it has sampled, in order; ad0, adv: its two matrices; cmd,
\* reply: the bytes a driver call wrote and read; addr, payload: what the
\* answering device put into its frame; res: what the driver call returned;
\* placed: the (bay, side, front/back) placements a calibration run has prompted;
\* cur: the live readings the sampling loop reported last.
\* preferred, ports, windows: SERIAL.PORT, ListPorts() and the host of a port
\* discovery, probes: the TestPort calls it has made, trace, found: its results.
NewOp(kind, step, pc, src) ==
    [kind |-> kind, pc |-> pc, ctx |-> FALSE, own |-> TRUE, open |-> TRUE,
     step |-> step, n |-> 0, bar |-> 0, err |-> FALSE, src |-> src,
     notReady |-> {}, failed |-> {}, samples |-> <<>>, sums |-> <<>>,
     count |-> 0, zeros |-> NoZeros, skipped |-> FALSE,
     nbars |-> NBars, nlcs |-> NLCs, plan |-> <<>>, ad0 |-> NoMatrix,
     adv |-> NoMatrix, cmd |-> <<>>, reply |-> <<>>, addr |-> <<>>,
     payload |-> <<>>, res |-> NoResult, preferred |-> NoPort,
     ports |-> <<>>, windows |-> FALSE, probes |-> <<>>, trace |-> <<>>,
     found |-> NoPort, placed |-> <<>>, cur |-> <<>>]

Goroutines == BagToSet(ops)
One(r) == SetToBag({r})
HasFree == BagCardinality(ops) < MaxOps

RECURSIVE SumOver(_, _)
SumOver(os, S) ==
    IF S = {} THEN 0
    ELSE LET r == CHOOSE x \in S : TRUE IN os[r] + SumOver(os, S \ {r})

\* the bag os with every goroutine r replaced by f[r]
MapOps(os, f) ==
    LET S == BagToSet(os)
        T == {f[r] : r \in S}
    IN  [t \in T |-> SumOver(os, {r \in S : f[r] = t})]

\* d.cancelLocked: d.opCancel() cancels the context of the goroutine that
\* owns it (if that goroutine still runs), then d.opCancel = nil
CancelCtx(os) ==
    MapOps(os, [r \in BagToSet(os) |->
                  IF r.own THEN [r EXCEPT !.ctx = TRUE, !.own = FALSE] ELSE r])

\* d.opCancel = nil without a call of it
Disown(os) == MapOps(os, [r \in BagToSet(os) |-> [r EXCEPT !.own = FALSE]])

\* d.bars.Close(): every goroutine that captured the port now holds a closed one
ClosePort(os) == MapOps(os, [r \in BagToSet(os) |-> [r EXCEPT !.open = FALSE]])

\* go func() { ... }() with a fresh context owned by d.opCancel
Spawn(os, kind, step, pc, src) == os (+) One(NewOp(kind, step, pc, src))

\* goroutine r returns
Returned(os, r) == os (-) One(r)
\* goroutine r moves on to the state r2
Moved(os, r, r2) == (os (-) One(r)) (+) One(r2)

Init ==
    /\ bars = FALSE /\ opCancel = FALSE /\ opKind = ""
    /\ calAd0 = NoMatrix /\ calAdv = NoMatrix /\ calReceived = 0 /\ calStepsLen = 0
    /\ lc = NoLC /\ calCalibratedID = 0 /\ out = ""
    /\ ops = EmptyBag
    /\ storeRaw = NoRecord
    /\ testZeros = NoZeros /\ testZeroCh = <<>> /\ testZeroing = FALSE
    /\ lastCollected = NoZeros

\* ---- connection handlers -------------------------------------------------
HandleConnect(found) ==
    /\ ops' = ClosePort(CancelCtx(ops))
    /\ opCancel' = FALSE
    /\ opKind' = ""
    /\ bars' = found
    /\ out' = IF found THEN "ok" ELSE "connect failed"
    /\ UNCHANGED <<calVars, lc, calCalibratedID, storeRaw, testVars>>

HandleDisconnect ==
    /\ ops' = ClosePort(CancelCtx(ops))
    /\ opCancel' = FALSE
    /\ opKind' = ""
    /\ bars' = FALSE
    /\ out' = "ok"
    /\ UNCHANGED <<calVars, lc, calCalibratedID, storeRaw, testVars>>

HandleStopOp ==
    /\ ops' = CancelCtx(ops)
    /\ opCancel' = FALSE
    /\ opKind' = ""
    /\ out' = "ok"
    /\ UNCHANGED <<bars, calVars, lc, calCalibratedID, storeRaw, testVars>>

\* a handler answers 400 and leaves the session as it is
Reject(msg) ==
    /\ out' = msg
    /\ UNCHANGED <<sessVars, calVars, lc, calCalibratedID, storeRaw, testVars, ops>>

\* ---- calibration sampling ------------------------------------------------
\* variant: the upper bound of the index check is off by one
HandleCalStartStep_offByOne(i) ==
    IF ~bars
      THEN Reject("not connected")
      ELSE IF i < 0 \/ i > PlanLen
        THEN /\ out' = "invalid stepIndex"
             /\ opCancel' = TRUE
             /\ opKind' = "calibrationSampling"
             /\ ops' = CancelCtx(ops)
             /\ UNCHANGED <<bars, calVars, lc, calCalibratedID, storeRaw, testVars>>
        ELSE /\ HasFree
             /\ out' = "ok"
             /\ opCancel' = TRUE
             /\ opKind' = "calibrationSampling"
             /\ IF i = 0
                  THEN /\ calAd0' = NoMatrix
                       /\ calAdv' = NoMatrix
                       /\ calStepsLen' = PlanLen
                       /\ calReceived' = 0
                  ELSE UNCHANGED calVars
             /\ ops' = Spawn(CancelCtx(ops), "calibrationSampling", i, "sampling", "")
             /\ UNCHANGED <<bars, lc, calCalibratedID, storeRaw, testVars>>

\* the operation fields are set before the step index is validated: a
\* rejected index leaves a cancel function whose context no goroutine watches
HandleCalStartStep(i) ==
    IF ~bars
      THEN Reject("not connected")
      ELSE IF i < 0 \/ i >= PlanLen
        THEN /\ out' = "invalid stepIndex"
             /\ opCancel' = TRUE
             /\ opKind' = "calibrationSampling"
             /\ ops' = CancelCtx(ops)
             /\ UNCHANGED <<bars, calVars, lc, calCalibratedID, storeRaw, testVars>>
        ELSE /\ HasFree
             /\ out' = "ok"
             /\ opCancel' = TRUE
             /\ opKind' = "calibrationSampling"
             /\ IF i = 0
                  THEN /\ calAd0' = NoMatrix
                       /\ calAdv' = NoMatrix
                       /\ calStepsLen' = PlanLen
                       /\ calReceived' = 0
                  ELSE UNCHANGED calVars
             /\ ops' = Spawn(CancelCtx(ops), "calibrationSampling", i, "sampling", "")
             /\ UNCHANGED <<bars, lc, calCalibratedID, storeRaw, testVars>>

\* sampleADCs(ctx, ...): returns the context's error once it is cancelled,
\* else the averaged readings of every bar
SampleADCs(r) ==
    /\ r.pc = "sampling"
    /\ IF r.ctx
         THEN /\ ops' = Returned(ops, r)
              /\ out' = "error"
         ELSE /\ ops' = Moved(ops, r, [r EXCEPT !.pc = "sampled"])
              /\ out' = ""
    /\ UNCHANGED <<sessVars, calVars, lc, calCalibratedID, storeRaw, testVars>>

\* the goroutine of handleCalStartStep after sampleADCs returned flat without error
SampleFinalize(r, flat) ==
    /\ r.pc = "sampled"
    /\ calReceived < MaxReceived
    /\ IF StepKind(r.step) = "zero"
         THEN /\ calAd0' = UpdateMatrixZero(flat, Calibs, NLCs)
              /\ calAdv' = NewMatrix(NLoads, NBars * NLCs)
         ELSE IF calAdv # NoMatrix
           THEN /\ calAdv' = UpdateMatrixWeight(calAdv, flat, StepRow(r.step), NLCs)
                /\ calAd0' = calAd0
           ELSE UNCHANGED <<calAd0, calAdv>>
    /\ calReceived' = calReceived + 1
    /\ out' = IF calReceived + 1 = calStepsLen THEN "samplesDone" ELSE "stepDone"
    /\ opKind' = ""
    /\ opCancel' = FALSE
    /\ ops' = Disown(Returned(ops, r))
    /\ UNCHANGED <<bars, calStepsLen, lc, calCalibratedID, storeRaw, testVars>>

\* ---- compute --------------------------------------------------------------
\* computeZerosAndFactors: zeros are the first row of ad0, the factors f come
\* from the pseudoinverse of adv - ad0
ComputeZerosAndFactors(adv, ad0, f) == [ZERO |-> ad0[1], FACTOR |-> f]

\* the marshalled copy of the bars' load-cell records
EncodeCalibratedJSON(l) == [BARS |-> l]

\* variant: the received-step count is not compared with the plan
HandleCalCompute_noCount(svdOk, f) ==
    IF ~bars
      THEN Reject("not connected")
    ELSE IF opKind = "calibrationSampling" \/ opKind = "calibrationFlash"
      THEN Reject("busy")
    ELSE IF calAd0 = NoMatrix \/ calAdv = NoMatrix
      THEN Reject("missing calibration matrices")
    ELSE IF ~svdOk
      THEN Reject("SVD failed")
    ELSE /\ lc' = ComputeZerosAndFactors(calAdv, calAd0, f)
         /\ calCalibratedID' = 1
         /\ storeRaw' = EncodeCalibratedJSON(lc')
         /\ out' = "computed"
         /\ UNCHANGED <<sessVars, calVars, testVars, ops>>

\* svdOk = FALSE: the factorization did not converge
HandleCalCompute(svdOk, f) ==
    IF ~bars
      THEN Reject("not connected")
    ELSE IF opKind = "calibrationSampling" \/ opKind = "calibrationFlash"
      THEN Reject("busy")
    ELSE IF calReceived # calStepsLen \/ calStepsLen = 0
      THEN Reject("samples not complete")
    ELSE IF calAd0 = NoMatrix \/ calAdv = NoMatrix
      THEN Reject("missing calibration matrices")
    ELSE IF ~svdOk
      THEN Reject("SVD failed")
    ELSE /\ lc' = ComputeZerosAndFactors(calAdv, calAd0, f)
         /\ calCalibratedID' = 1
         /\ storeRaw' = EncodeCalibratedJSON(lc')
         /\ out' = "computed"
         /\ UNCHANGED <<sessVars, calVars, testVars, ops>>

\* ---- calibration flash / stand-alone flash -------------------------------
FlashSources == {"computed", "uploaded"}   \* the calibrated record named by req.CalibratedID

\* refuses while an operation kind is set; cancels nothing
HandleCalFlash ==
    IF ~bars
      THEN Reject("not connected")
    ELSE IF opKind # ""
      THEN Reject("busy")
    ELSE /\ HasFree
         /\ ops' = Spawn(Disown(ops), "calibrationFlash", 0, "fl_enter", "params")
         /\ opCancel' = TRUE
         /\ opKind' = "calibrationFlash"
         /\ out' = "ok"
         /\ UNCHANGED <<bars, calVars, lc, calCalibratedID, storeRaw, testVars>>

HandleFlashStart(src) ==
    /\ src = "computed" => calCalibratedID # 0
    /\ IF ~bars
         THEN Reject("not connected")
         ELSE /\ HasFree
              /\ ops' = Spawn(CancelCtx(ops), "flash", 0, "fl_enter", src)
              /\ opCancel' = TRUE
              /\ opKind' = "flash"
              /\ out' = "ok"
              /\ UNCHANGED <<bars, calVars, lc, calCalibratedID, storeRaw, testVars>>

\* variant: a flash that ends with an error forgets the calibrated record
FlashReturn_forgetArtifact(r, ev) ==
    /\ out' = ev
    /\ IF r.kind = "calibrationFlash"
         THEN /\ ops' = Disown(Returned(ops, r))
              /\ opKind' = ""
              /\ opCancel' = FALSE
         ELSE /\ ops' = Returned(ops, r)
              /\ UNCHANGED <<opKind, opCancel>>
    /\ calCalibratedID' = IF ev = "error" THEN 0 ELSE calCalibratedID
    /\ UNCHANGED <<bars, calVars, lc, storeRaw, testVars>>

\* the goroutine of a flash returns: handleCalFlash defers the reset of the
\* session's operation fields, handleFlashStart does not
FlashReturn(r, ev) ==
    /\ out' = ev
    /\ IF r.kind = "calibrationFlash"
         THEN /\ ops' = Disown(Returned(ops, r))
              /\ opKind' = ""
              /\ opCancel' = FALSE
         ELSE /\ ops' = Returned(ops, r)
              /\ UNCHANGED <<opKind, opCancel>>
    /\ UNCHANGED <<bars, calVars, lc, calCalibratedID, storeRaw, testVars>>

FlashMove(r, r2) ==
    /\ ops' = Moved(ops, r, r2)
    /\ out' = ""
    /\ UNCHANGED <<sessVars, calVars, lc, calCalibratedID, storeRaw, testVars>>

FlashStep(r, pc, n, bar) == FlashMove(r, [r EXCEPT !.pc = pc, !.n = n, !.bar = bar])

\* the PARAMETERS handed to flashParameters have no LC records
MissingFactors(r) == r.src \in {"params", "computed"} /\ lc = NoLC

AllBars == 0..(NBars - 1)

\* flashParameters: argument checks, then bars.OpenToUpdate(); a refusal
\* is returned as the error of the flash
FlashEnter(r, ack) ==
    /\ r.pc = "fl_enter"
    /\ r.kind # "cliFlash"
    /\ IF MissingFactors(r) \/ ~ack
         THEN FlashReturn(r, "error")
         ELSE FlashMove(r, [r EXCEPT !.pc = "fl_handshake", !.n = 1, !.notReady = AllBars])

\* variant: the flash goes on to the writes once the rounds are used up
FlashHandshake_proceed(r, acks) ==
    /\ r.pc = "fl_handshake"
    /\ r.kind # "cliFlash"
    /\ IF r.ctx
         THEN FlashReturn(r, "error")
         ELSE IF r.notReady \ acks = {} \/ r.n >= HandshakeRounds
           THEN FlashMove(r, [r EXCEPT !.pc = "fl_bar", !.n = 0, !.notReady = @ \ acks])
           ELSE FlashMove(r, [r EXCEPT !.n = @ + 1, !.notReady = @ \ acks])

\* one round of the per-bar Euler handshake: the bars of acks answer "Enter"
FlashHandshake(r, acks) ==
    /\ r.pc = "fl_handshake"
    /\ r.kind # "cliFlash"
    /\ IF r.ctx
         THEN FlashReturn(r, "error")
         ELSE IF r.notReady \ acks = {}
           THEN FlashMove(r, [r EXCEPT !.pc = "fl_bar", !.n = 0, !.notReady = {}])
           ELSE IF r.n < HandshakeRounds
             THEN FlashMove(r, [r EXCEPT !.n = @ + 1, !.notReady = @ \ acks])
             ELSE FlashReturn(r, "error")

\* top of the per-bar loop
FlashBar(r) ==
    /\ r.pc = "fl_bar"
    /\ IF r.ctx
         THEN FlashReturn(r, "error")
         ELSE FlashStep(r, "fl_zeros", 1, r.bar)

\* one attempt of the zero write of the current bar; the third refusal is
\* returned as the error of the whole flash
FlashZeros(r, ack) ==
    /\ r.pc = "fl_zeros"
    /\ r.kind # "cliFlash"
    /\ IF ack
         THEN FlashStep(r, "fl_factors", 1, r.bar)
         ELSE IF r.n < WriteAttempts
           THEN FlashStep(r, "fl_zeros", r.n + 1, r.bar)
           ELSE FlashReturn(r, "error")

\* one attempt of the factor write of the current bar
FlashFactors(r, ack) ==
    /\ r.pc = "fl_factors"
    /\ r.kind # "cliFlash"
    /\ IF ack
         THEN FlashStep(r, "fl_reboot", 0, r.bar)
         ELSE IF r.n < WriteAttempts
           THEN FlashStep(r, "fl_factors", r.n + 1, r.bar)
           ELSE FlashReturn(r, "error")

\* bars.Reboot(i), then the next bar or the end of the flash
FlashReboot(r) ==
    /\ r.pc = "fl_reboot"
    /\ r.kind # "cliFlash"
    /\ IF r.bar + 1 < NBars
         THEN FlashStep(r, "fl_bar", 0, r.bar + 1)
         ELSE FlashReturn(r, "done")

\* ---- flash of the command-line program (package calibration) -------------
\* The command-line program is one sequential process: while it runs
\* flashParameters it is the only record of the bag. It has no context and
\* no session fields.
CliIdle == \A r \in Goroutines : r.kind # "cliFlash"

CliFlashStart(src) ==
    /\ ops = EmptyBag
    /\ ops' = Disown(Spawn(ops, "cliFlash", 0, "fl_enter", src))
    /\ out' = ""
    /\ UNCHANGED <<sessVars, calVars, lc, calCalibratedID, storeRaw, testVars>>

\* flashParameters returns err (nil: "done")
CliReturn(r, ev) ==
    /\ ops' = Returned(ops, r)
    /\ out' = ev
    /\ UNCHANGED <<sessVars, calVars, lc, calCalibratedID, storeRaw, testVars>>

\* bars.OpenToUpdate(); after the first refusal every bar is rebooted and
\* the call is made once more (n = 1)
CliOpenToUpdate(r, ack) ==
    /\ r.pc = "fl_enter"
    /\ r.kind = "cliFlash"
    /\ IF MissingFactors(r)
         THEN CliReturn(r, "done")
         ELSE IF ack
           THEN FlashMove(r, [r EXCEPT !.pc = "fl_handshake", !.n = 1, !.notReady = AllBars])
           ELSE IF r.n = 0
             THEN FlashMove(r, [r EXCEPT !.n = 1])
             ELSE CliReturn(r, "error")

CliHandshake(r, acks) ==
    /\ r.pc = "fl_handshake"
    /\ r.kind = "cliFlash"
    /\ IF r.notReady \ acks = {}
         THEN FlashMove(r, [r EXCEPT !.pc = "fl_zeros", !.n = 1, !.notReady = {}])
         ELSE IF r.n < HandshakeRounds
           THEN FlashMove(r, [r EXCEPT !.n = @ + 1, !.notReady = @ \ acks])
           ELSE CliReturn(r, "error")

\* `continue`: the loop goes on with the next bar, or ends after the last
CliNextBar(r, failed) ==
    IF r.bar + 1 < NBars
      THEN FlashMove(r, [r EXCEPT !.pc = "fl_zeros", !.n = 1, !.bar = @ + 1,
                                  !.failed = failed])
      ELSE CliReturn(r, "done")

CliZeros(r, ack) ==
    /\ r.pc = "fl_zeros"
    /\ r.kind = "cliFlash"
    /\ IF ack
         THEN FlashStep(r, "fl_factors", 1, r.bar)
         ELSE IF r.n < WriteAttempts
           THEN FlashStep(r, "fl_zeros", r.n + 1, r.bar)
           ELSE CliNextBar(r, r.failed \cup {r.bar})

CliFactors(r, ack) ==
    /\ r.pc = "fl_factors"
    /\ r.kind = "cliFlash"
    /\ IF ack
         THEN FlashStep(r, "fl_reboot", 0, r.bar)
         ELSE IF r.n < WriteAttempts
           THEN FlashStep(r, "fl_factors", r.n + 1, r.bar)
           ELSE CliNextBar(r, r.failed \cup {r.bar})

CliReboot(r) ==
    /\ r.pc = "fl_reboot"
    /\ r.kind = "cliFlash"
    /\ CliNextBar(r, r.failed)

\* ---- test mode -------------------------------------------------------------
DeviceLC == [ZERO |-> [c \in 1..Cols |-> 0], FACTOR |-> 0]   \* factors stored in the device

\* the unloaded readings collectAveragedZeros can return
ZeroVals == {Flat(0), Flat(5)}

HandleTestStart ==
    IF ~bars
      THEN Reject("not connected")
      ELSE /\ HasFree
           /\ ops' = Spawn(CancelCtx(ops), "test", 0, "t_settle", "")
           /\ opCancel' = TRUE
           /\ opKind' = "test"
           /\ out' = "ok"
           /\ UNCHANGED <<bars, calVars, lc, calCalibratedID, storeRaw, testVars>>

\* the goroutine of handleTestStart returns; it resets no session field
TestReturn(r, ev) ==
    /\ ops' = Returned(ops, r)
    /\ out' = ev
    /\ UNCHANGED <<sessVars, calVars, calCalibratedID, storeRaw>>

TestMove(r, r2, ev) ==
    /\ ops' = Moved(ops, r, r2)
    /\ out' = ev
    /\ UNCHANGED <<sessVars, calVars, calCalibratedID, storeRaw>>

TestStep(r, pc, n, err) == TestMove(r, [r EXCEPT !.pc = pc, !.n = n, !.err = err], "")

\* settle delay and drain of the serial buffer
TestSettle(r) ==
    /\ r.pc = "t_settle"
    /\ TestStep(r, "t_factors", 1, FALSE)
    /\ UNCHANGED <<lc, testVars>>

\* one of the attempts to read the factors back from the device
TestReadFactors(r, ok) ==
    /\ r.pc = "t_factors"
    /\ UNCHANGED testVars
    /\ IF r.ctx
         THEN TestReturn(r, "stopped") /\ UNCHANGED lc
         ELSE /\ lc' = IF ok THEN DeviceLC ELSE lc
              /\ IF r.n < FactorReadAttempts
                   THEN TestStep(r, "t_factors", r.n + 1, ~ok)
                   ELSE IF ~ok \/ lc' = NoLC
                     THEN TestReturn(r, "error")
                     ELSE TestStep(r, "t_zeros", 0, FALSE)

\* collectAveragedZeros(ctx, ...) returns z, which is stored in d.testZeros
TestCollectZeros(r, z) ==
    /\ r.pc = "t_zeros"
    /\ IF r.ctx
         THEN TestReturn(r, "error") /\ UNCHANGED testVars
         ELSE /\ TestStep(r, "t_loop", 0, FALSE)
              /\ testZeros' = z
              /\ lastCollected' = z
              /\ UNCHANGED <<testZeroCh, testZeroing>>
    /\ UNCHANGED lc

\* the snapshot loop takes the timer case of its select and finds
\* d.testZeroing clear: it goes on to the snapshot read.
\* With the context cancelled and the timer ready the select may take either
\* case; n = 1 once it has taken the timer case of a cancelled context.
TestTimer(r) ==
    /\ r.pc = "t_loop"
    /\ ~testZeroing
    /\ ~r.ctx \/ r.n = 0
    /\ TestMove(r, [r EXCEPT !.pc = "t_read", !.n = IF r.ctx THEN 1 ELSE 0,
                             !.skipped = FALSE], "")
    /\ UNCHANGED <<lc, testVars>>

\* computeTestSnapshot(bars, p, currentZeros, ...): the ADC read of every bar,
\* made after the flag was tested and without looking at it again
TestSnapshot(r) ==
    /\ r.pc = "t_read"
    /\ TestMove(r, [r EXCEPT !.pc = "t_loop"], "snapshot")
    /\ UNCHANGED <<lc, testVars>>

\* the timer case while d.testZeroing is set: the tick passes without a
\* snapshot (skipped) and the timer is armed again
TestSkip(r) ==
    /\ r.pc = "t_loop"
    /\ testZeroing
    /\ ~r.ctx \/ r.n = 0
    /\ TestMove(r, [r EXCEPT !.n = IF r.ctx THEN 1 ELSE 0, !.skipped = TRUE], "")
    /\ UNCHANGED <<lc, testVars>>

\* the case newZeros := <-d.testZeroCh
TestReceiveZeros(r) ==
    /\ r.pc = "t_loop"
    /\ testZeroCh # <<>>
    /\ testZeros' = Head(testZeroCh)
    /\ testZeroCh' = Tail(testZeroCh)
    /\ TestMove(r, r, "")
    /\ UNCHANGED <<lc, testZeroing, lastCollected>>

\* the snapshot loop: the select takes any ready case
TestLoop(r) ==
    \/ r.pc = "t_loop" /\ r.ctx /\ TestReturn(r, "stopped") /\ UNCHANGED <<lc, testVars>>
    \/ TestTimer(r)
    \/ TestSnapshot(r)

\* ---- test mode: re-zero -----------------------------------------------------
\* the goroutine of handleTestZero runs on context.Background(): d.opCancel
\* is not its cancel function
HandleTestZero ==
    IF ~bars
      THEN Reject("not connected")
    ELSE IF opKind # "test"
      THEN Reject("test mode not active")
    ELSE /\ HasFree
         /\ out' = "ok"
         /\ ops' = ops (+) One([NewOp("testZero", 0, "z_begin", "") EXCEPT !.own = FALSE])
         /\ UNCHANGED <<sessVars, calVars, lc, calCalibratedID, storeRaw, testVars>>

ZeroMove(r, r2) ==
    /\ out' = ""
    /\ ops' = Moved(ops, r, r2)
    /\ UNCHANGED <<sessVars, calVars, lc, calCalibratedID, storeRaw>>

\* the deferred atomic.StoreInt32(&d.testZeroing, 0) runs as it returns
ZeroReturn(r, ev) ==
    /\ out' = ev
    /\ ops' = Returned(ops, r)
    /\ testZeroing' = FALSE
    /\ UNCHANGED <<sessVars, calVars, lc, calCalibratedID, storeRaw>>

\* atomic.StoreInt32(&d.testZeroing, 1)
ZeroBegin(r) ==
    /\ r.pc = "z_begin"
    /\ testZeroing' = TRUE
    /\ ZeroMove(r, [r EXCEPT !.pc = "z_collect"])
    /\ UNCHANGED <<testZeros, testZeroCh, lastCollected>>

\* collectAveragedZeros(context.Background(), ...) returns z, or an error
ZeroCollect(r, ok, z) ==
    /\ r.pc = "z_collect"
    /\ IF ok
         THEN /\ ZeroMove(r, [r EXCEPT !.pc = "z_store", !.zeros = z])
              /\ lastCollected' = z
              /\ UNCHANGED <<testZeros, testZeroCh, testZeroing>>
         ELSE /\ ZeroReturn(r, "error")
              /\ UNCHANGED <<testZeros, testZeroCh, lastCollected>>

\* d.testZeros = zeros under d.testZerosMu
ZeroStore(r) ==
    /\ r.pc = "z_store"
    /\ testZeros' = r.zeros
    /\ ZeroMove(r, [r EXCEPT !.pc = "z_send"])
    /\ UNCHANGED <<testZeroCh, testZeroing, lastCollected>>

\* select { case d.testZeroCh <- zeros: default: }: the vector is dropped
\* when the slot of the channel is taken
ZeroSend(r) ==
    /\ r.pc = "z_send"
    /\ testZeroCh' = IF Len(testZeroCh) < TestZeroChCap
                       THEN Append(testZeroCh, r.zeros) ELSE testZeroCh
    /\ ZeroReturn(r, "")
    /\ UNCHANGED <<testZeros, lastCollected>>

\* ---- sampling of the command-line program (package calibration) ----------
\* The command-line program runs manipulateADC and collectAveragedZeros on
\* its only goroutine: one record of the bag, which stays there with its
\* result (zeros) once the function has returned.
\* src: the key waiting in the keyEvents channel ("": none); step: 0 before
\* the key check of a loop iteration, 1 before its reads.
Phases == <<"live", "ignoring", "averaging", "finished">>
Keys == {"esc", "go", "other"}      \* ESC, 'C' or 'c', any other key

\* the reading of the unloaded device, flattened; bar i is GetADs(i)
TrueFlat == Flat(Reading)
BarReading(i) == [l \in 1..NLCs |-> TrueFlat[i * NLCs + l]]
NoReading == [l \in 1..NLCs |-> 0]      \* make([]int64, bars.NLCs)
AllOk == [i \in AllBars |-> TRUE]
AllFail == [i \in AllBars |-> FALSE]

CliDone == \A r \in Goroutines : r.pc \in {"returned", "cancelled"}

CliMove(r, r2) ==
    /\ ops' = Moved(ops, r, r2)
    /\ out' = ""
    /\ UNCHANGED <<sessVars, calVars, lc, calCalibratedID, storeRaw, testVars>>

ManipulateADCStart ==
    /\ CliDone
    /\ ops' = One([NewOp("cliSample", 0, "live", "") EXCEPT
                      !.own = FALSE, !.samples = [i \in AllBars |-> <<>>],
                      !.cur = [i \in AllBars |-> NoReading]])
    /\ out' = ""
    /\ UNCHANGED <<sessVars, calVars, lc, calCalibratedID, storeRaw, testVars>>

\* the operator presses a key while manipulateADC runs
PressKey(r, k) ==
    /\ r.kind = "cliSample"
    /\ r.pc \notin {"returned", "cancelled"}
    /\ r.src = ""
    /\ CliMove(r, [r EXCEPT !.src = k])

RECURSIVE SumLC(_, _)
SumLC(barSamples, l) ==
    IF barSamples = <<>> THEN 0
    ELSE (IF l <= Len(Head(barSamples)) THEN Head(barSamples)[l] ELSE 0)
           + SumLC(Tail(barSamples), l)

RECURSIVE CountLC(_, _)
CountLC(barSamples, l) ==
    IF barSamples = <<>> THEN 0
    ELSE (IF l <= Len(Head(barSamples)) THEN 1 ELSE 0) + CountLC(Tail(barSamples), l)

\* per bar and load cell, the sum of the samples over their number
CalculateFinalAverages(samples, nlcs) ==
    [i \in DOMAIN samples |->
        [l \in 1..nlcs |->
            IF CountLC(samples[i], l) > 0
              THEN SumLC(samples[i], l) \div CountLC(samples[i], l)
              ELSE 0]]

\* bar-major, channel-minor
Flatten(finalAverages) ==
    [c \in 1..Cols |-> finalAverages[(c - 1) \div NLCs][((c - 1) % NLCs) + 1]]

\* variant: any key starts the measurement
AdcKeyCheck_anyKey(r) ==
    /\ r.kind = "cliSample"
    /\ r.pc \in {Phases[j] : j \in 1..4}
    /\ r.step = 0
    /\ IF r.pc = "live" /\ r.src = "esc"
         THEN CliMove(r, [r EXCEPT !.pc = "cancelled", !.src = "", !.zeros = NoZeros])
       ELSE IF r.pc = "live" /\ r.src # ""
         THEN CliMove(r, [r EXCEPT !.pc = "ignoring", !.count = 0, !.src = "", !.step = 1])
       ELSE IF r.pc = "live"
         THEN CliMove(r, [r EXCEPT !.src = "", !.step = 1])
       ELSE CliMove(r, [r EXCEPT !.step = 1])

\* top of a loop iteration: the key channel is read in phase "live" only
AdcKeyCheck(r) ==
    /\ r.kind = "cliSample"
    /\ r.pc \in {Phases[j] : j \in 1..4}
    /\ r.step = 0
    /\ IF r.pc = "live" /\ r.src = "esc"
         THEN CliMove(r, [r EXCEPT !.pc = "cancelled", !.src = "", !.zeros = NoZeros])
       ELSE IF r.pc = "live" /\ r.src = "go"
         THEN CliMove(r, [r EXCEPT !.pc = "ignoring", !.count = 0, !.src = "", !.step = 1])
       ELSE IF r.pc = "live"
         THEN CliMove(r, [r EXCEPT !.src = "", !.step = 1])
       ELSE CliMove(r, [r EXCEPT !.step = 1])

\* variant: an iteration in which no bar answers is not counted
AdcTick_answeredOnly(r, reads) ==
    /\ r.kind = "cliSample"
    /\ r.step = 1
    /\ LET cur == [i \in AllBars |-> IF reads[i] THEN BarReading(i) ELSE NoReading]
           all == [i \in AllBars |-> Append(r.samples[i], cur[i])]
       IN  CASE r.pc = "live" -> CliMove(r, [r EXCEPT !.step = 0, !.cur = cur])
             [] r.pc \in {"ignoring", "averaging"} /\ reads = AllFail ->
                  CliMove(r, [r EXCEPT !.step = 0, !.cur = cur])
             [] r.pc = "ignoring" ->
                  IF r.count + 1 >= IgnoreTarget
                    THEN CliMove(r, [r EXCEPT !.pc = "averaging", !.count = 0, !.step = 0, !.cur = cur,
                                              !.n = @ + 1,
                                              !.samples = [i \in AllBars |-> <<>>]])
                    ELSE CliMove(r, [r EXCEPT !.count = @ + 1, !.step = 0, !.cur = cur, !.n = @ + 1])
             [] r.pc = "averaging" ->
                  IF r.count + 1 >= AvgTarget
                    THEN CliMove(r, [r EXCEPT !.pc = "finished", !.count = @ + 1, !.step = 0, !.cur = cur,
                                              !.n = @ + 1, !.samples = all,
                                              !.zeros = Flatten(CalculateFinalAverages(all, NLCs))])
                    ELSE CliMove(r, [r EXCEPT !.count = @ + 1, !.step = 0, !.cur = cur, !.n = @ + 1,
                                              !.samples = all])
             [] r.pc = "finished" -> CliMove(r, [r EXCEPT !.pc = "returned", !.step = 0])

\* rest of the iteration: every bar is read (reads[i]: bar i answers; a bar
\* that does not answer counts as a vector of zeros), then the phase acts;
\* n counts the iterations made in the phases ignoring and averaging, cur is
\* currentSample as the line printed by the iteration shows it
AdcTick(r, reads) ==
    /\ r.kind = "cliSample"
    /\ r.step = 1
    /\ LET cur == [i \in AllBars |-> IF reads[i] THEN BarReading(i) ELSE NoReading]
           all == [i \in AllBars |-> Append(r.samples[i], cur[i])]
       IN  CASE r.pc = "live" -> CliMove(r, [r EXCEPT !.step = 0, !.cur = cur])
             [] r.pc = "ignoring" ->
                  IF r.count + 1 >= IgnoreTarget
                    THEN CliMove(r, [r EXCEPT !.pc = "averaging", !.count = 0, !.step = 0, !.cur = cur,
                                              !.n = @ + 1,
                                              !.samples = [i \in AllBars |-> <<>>]])
                    ELSE CliMove(r, [r EXCEPT !.count = @ + 1, !.step = 0, !.cur = cur, !.n = @ + 1])
             [] r.pc = "averaging" ->
                  IF r.count + 1 >= AvgTarget
                    THEN CliMove(r, [r EXCEPT !.pc = "finished", !.count = @ + 1, !.step = 0, !.cur = cur,
                                              !.n = @ + 1, !.samples = all,
                                              !.zeros = Flatten(CalculateFinalAverages(all, NLCs))])
                    ELSE CliMove(r, [r EXCEPT !.count = @ + 1, !.step = 0, !.cur = cur, !.n = @ + 1,
                                              !.samples = all])
             [] r.pc = "finished" -> CliMove(r, [r EXCEPT !.pc = "returned", !.step = 0])

\* collectAveragedZeros of the command-line test mode
CollectStart ==
    /\ CliDone
    /\ ops' = One([NewOp("cliZeros", 0, "warmup", "") EXCEPT
                      !.own = FALSE, !.sums = [c \in 1..Cols |-> 0]])
    /\ out' = ""
    /\ UNCHANGED <<sessVars, calVars, lc, calCalibratedID, storeRaw, testVars>>

\* one warm-up iteration: every bar is read, the answers are dropped
CollectWarmup(r) ==
    /\ r.kind = "cliZeros"
    /\ r.pc = "warmup"
    /\ IF r.n + 1 >= IgnoreTarget
         THEN CliMove(r, [r EXCEPT !.pc = "collect", !.n = 0])
         ELSE CliMove(r, [r EXCEPT !.n = @ + 1])

\* one sampling iteration: the answers are summed, the iteration counts
\* when at least one bar answered
CollectTick(r, reads) ==
    /\ r.kind = "cliZeros"
    /\ r.pc = "collect"
    /\ LET sums == [c \in 1..Cols |->
                      IF reads[(c - 1) \div NLCs] THEN r.sums[c] + TrueFlat[c] ELSE r.sums[c]]
           count == IF \E i \in AllBars : reads[i] THEN r.count + 1 ELSE r.count
       IN  CliMove(r, [r EXCEPT !.sums = sums, !.count = count, !.n = @ + 1,
                                !.pc = IF r.n + 1 >= AvgTarget THEN "average" ELSE "collect"])

\* the average, or with no counted iteration a one-shot read of every bar
CollectAverage(r, reads) ==
    /\ r.kind = "cliZeros"
    /\ r.pc = "average"
    /\ IF r.count = 0
         THEN CliMove(r, [r EXCEPT !.pc = "returned",
                            !.zeros = [c \in 1..Cols |->
                                         IF reads[(c - 1) \div NLCs] THEN TrueFlat[c] ELSE 0]])
         ELSE CliMove(r, [r EXCEPT !.pc = "returned",
                            !.zeros = [c \in 1..Cols |-> r.sums[c] \div r.count]])

\* ---- calibration of the command-line program (CalRunrilla) ----------------
\* The run is one record of kind "cliCalib". pc "fatal" is log.Fatal (exit
\* status 1); src then names the call that ended the process.
CalReadings == {0, 5, 9}      \* readings of the empty shelf
FlatN(b, cols) == [c \in 1..cols |-> b + c]

CalFatal(r, why) == [r EXCEPT !.pc = "fatal", !.src = why]

\* os.ReadFile, json.Unmarshal, the checks of BARS and SERIAL
CalRunrillaStart(cfgOk, nbars, nlcs) ==
    /\ ops = EmptyBag
    /\ LET r == [NewOp("cliCalib", 0, "open", "") EXCEPT
                    !.own = FALSE, !.open = FALSE, !.nbars = nbars, !.nlcs = nlcs]
       IN  ops' = One(IF cfgOk THEN r ELSE CalFatal(r, "config"))
    /\ out' = ""
    /\ UNCHANGED <<sessVars, calVars, lc, calCalibratedID, storeRaw, testVars>>

\* serial.OpenPort on the configured port; on failure (or with no port
\* configured) AutoDetectPort, which probes the ports of the machine
CalOpen(r, portOk, found) ==
    /\ r.kind = "cliCalib"
    /\ r.pc = "open"
    /\ CliMove(r, IF portOk \/ found THEN [r EXCEPT !.pc = "leo"]
                  ELSE CalFatal(r, "detect"))

\* serialpkg.NewLeo485: log.Fatal when the port does not open, and after
\* the port is open when the bars differ in their number of active load cells
NewLeo485(r, ok, match) ==
    /\ r.kind = "cliCalib"
    /\ r.pc = "leo"
    /\ CliMove(r, IF ~ok THEN CalFatal(r, "open")
                  ELSE IF ~match THEN [CalFatal(r, "config") EXCEPT !.open = TRUE]
                  ELSE [r EXCEPT !.pc = "probe", !.open = TRUE])

\* ProbeVersion; without an answer the bars are rebooted and probed again,
\* then AutoDetectPort and, for another port, a second NewLeo485
CalProbe(r, answered, moved, ok) ==
    /\ r.kind = "cliCalib"
    /\ r.pc = "probe"
    /\ CliMove(r, IF ~answered /\ moved /\ ~ok THEN CalFatal(r, "open")
                  ELSE [r EXCEPT !.pc = "zero"])

\* variant: nloads leaves out the load cells per bar
ZeroCalibration_perBar(r, ok, b) ==
    /\ r.kind = "cliCalib"
    /\ r.pc = "zero"
    /\ LET ads == FlatN(b, r.nbars * r.nlcs)
           nloads == 3 * (r.nbars - 1)
       IN  CliMove(r, IF ~ok THEN CalFatal(r, "cancelled")
                      ELSE [r EXCEPT !.plan = Append(@, "zero"),
                                     !.zeros = ads,
                                     !.ad0 = UpdateMatrixZero(ads, 3 * (r.nbars - 1), r.nlcs),
                                     !.adv = NewMatrix(nloads, r.nbars * r.nlcs),
                                     !.n = nloads,
                                     !.step = 0,
                                     !.pc = IF 0 < nloads THEN "weight" ELSE "clear"])

\* zeroCalibration, then the head of weightCalibration (nloads, adv, j = 0)
ZeroCalibration(r, ok, b) ==
    /\ r.kind = "cliCalib"
    /\ r.pc = "zero"
    /\ LET ads == FlatN(b, r.nbars * r.nlcs)
           nloads == 3 * (r.nbars - 1) * r.nlcs
       IN  CliMove(r, IF ~ok THEN CalFatal(r, "cancelled")
                      ELSE [r EXCEPT !.plan = Append(@, "zero"),
                                     !.zeros = ads,
                                     !.ad0 = UpdateMatrixZero(ads, 3 * (r.nbars - 1), r.nlcs),
                                     !.adv = NewMatrix(nloads, r.nbars * r.nlcs),
                                     !.n = nloads,
                                     !.step = 0,
                                     !.pc = IF 0 < nloads THEN "weight" ELSE "clear"])

\* the placement named in the prompt of Weight step index:
\* (BAY)(index/6), (LMR)((index/2)%3), (FB)(index%2)
Placement(index) == <<index \div 6, (index \div 2) % 3, index % 2>>

\* variant: the loop runs while j <= nloads
WeightCalibrationSingle_oneMore(r, ok) ==
    /\ r.kind = "cliCalib"
    /\ r.pc = "weight"
    /\ LET ads == [c \in 1..(r.nbars * r.nlcs) |-> r.zeros[c] + 10 * (r.step + 1)]
       IN  CliMove(r, IF ~ok THEN CalFatal(r, "cancelled")
                      ELSE [r EXCEPT !.plan = Append(@, "weight"),
                                     !.placed = Append(@, Placement(r.step)),
                                     !.adv = IF r.step < r.n
                                               THEN UpdateMatrixWeight(@, ads, r.step, r.nlcs)
                                               ELSE @,
                                     !.step = @ + 1,
                                     !.pc = IF r.step + 1 <= r.n THEN "weight" ELSE "clear"])

\* one iteration of for j := 0; j < nloads; j++: weightCalibrationSingle
WeightCalibrationSingle(r, ok) ==
    /\ r.kind = "cliCalib"
    /\ r.pc = "weight"
    /\ LET ads == [c \in 1..(r.nbars * r.nlcs) |-> r.zeros[c] + 10 * (r.step + 1)]
       IN  CliMove(r, IF ~ok THEN CalFatal(r, "cancelled")
                      ELSE [r EXCEPT !.plan = Append(@, "weight"),
                                     !.placed = Append(@, Placement(r.step)),
                                     !.adv = UpdateMatrixWeight(@, ads, r.step, r.nlcs),
                                     !.step = @ + 1,
                                     !.pc = IF r.step + 1 < r.n THEN "weight" ELSE "clear"])

\* "Clear all the bays": ESC ends the process, 'C' goes on
CalClear(r, k) ==
    /\ r.kind = "cliCalib"
    /\ r.pc = "clear"
    /\ k \in {"esc", "go"}
    /\ CliMove(r, IF k = "esc" THEN CalFatal(r, "cancelled") ELSE [r EXCEPT !.pc = "compute"])

\* calcZerosFactors: InverseSVD and MulVector return nil on failure
CalcZerosFactors(r, svdOk, mulOk) ==
    /\ r.kind = "cliCalib"
    /\ r.pc = "compute"
    /\ CliMove(r, IF ~svdOk THEN CalFatal(r, "svd")
                  ELSE IF ~mulOk THEN CalFatal(r, "multiply")
                  ELSE [r EXCEPT !.pc = "returned"])

\* ---- frames of the device protocol (package serial) ----------------------
\* Bytes are 0..255, a frame is a sequence of bytes.
RECURSIVE Xor(_, _)
Xor(a, b) ==
    IF a = 0 THEN b
    ELSE IF b = 0 THEN a
    ELSE ((a + b) % 2) + 2 * Xor(a \div 2, b \div 2)

\* one of the eight rounds of a byte, on a uint16
CrcRound(cs) ==
    LET carry == cs \div 32768
        x == IF carry # 0 THEN Xor(cs, CrcFeedback) ELSE cs
    IN  (((x * 2) % 65536) + carry) % 65536

RECURSIVE CrcRounds(_, _)
CrcRounds(cs, i) == IF i = 0 THEN cs ELSE CrcRounds(CrcRound(cs), i - 1)

RECURSIVE CrcBytes(_, _)
CrcBytes(cs, data) ==
    IF data = <<>> THEN cs
    ELSE LET next == CrcRounds(Xor(cs, Head(data) * 256), 8)
         IN  \* the test makes the byte's rounds run before the next byte's
             IF next = 0 THEN CrcBytes(0, Tail(data)) ELSE CrcBytes(next, Tail(data))

\* the two bytes of the checksum, high byte first
crc16(data) == LET cs == CrcBytes(0, data) IN <<cs \div 256, cs % 256>>

GetCommand(id, command) ==
    LET cmd == <<Digit0, id + Digit0>> \o command
    IN  cmd \o crc16(cmd) \o <<CR>>

\* strings.Index: 0-based position of the first occurrence of sep, or -1
stringsIndex(str, sep) ==
    LET I == {i \in 1..(Len(str) - Len(sep) + 1) : SubSeq(str, i, i + Len(sep) - 1) = sep}
    IN  IF I = {} THEN 0 - 1 ELSE (CHOOSE i \in I : \A j \in I : i <= j) - 1

Contains(str, sep) == stringsIndex(str, sep) # 0 - 1

Failure(msg) == [err |-> msg, data |-> <<>>]

\* position of the line terminator: "\r\n", else "\n"
Terminator(input) ==
    IF stringsIndex(input, <<CR, LF>>) # 0 - 1
      THEN stringsIndex(input, <<CR, LF>>)
      ELSE stringsIndex(input, <<LF>>)

checkData(input, cmd) ==
    LET rnPos == Terminator(input)
    IN  IF Len(input) < 5 THEN Failure("short response")
        ELSE IF SubSeq(input, 1, 2) # SubSeq(cmd, 1, 2) \/ input[3] # Pipe
          THEN Failure("wrong ID or missing pipe")
        ELSE IF rnPos < 2 THEN Failure("wrong format")
        ELSE IF SubSeq(input, rnPos - 1, rnPos) # crc16(SubSeq(input, 1, rnPos - 2))
          THEN Failure("wrong checksum")
        ELSE IF rnPos - 2 < 3 THEN Failure("panic: slice bounds out of range")
        ELSE [err |-> "", data |-> SubSeq(input, 4, rnPos - 2)]

\* readUntil: the bytes that arrived, and an error unless a '\n' is among them
readUntil(arrived) ==
    [err |-> IF Contains(arrived, <<LF>>) THEN "" ELSE "read timeout", data |-> arrived]

\* strings.Split(data, "|")
RECURSIVE stringsSplit(_)
stringsSplit(str) ==
    LET i == stringsIndex(str, <<Pipe>>)
    IN  IF i = 0 - 1 THEN <<str>>
        ELSE <<SubSeq(str, 1, i)>> \o stringsSplit(SubSeq(str, i + 2, Len(str)))

\* strconv.ParseUint(in, 10, 64) with its error dropped: failures are 0
RECURSIVE Decimal(_)
Decimal(str) == IF str = <<>> THEN 0 ELSE 10 * Decimal(SubSeq(str, 1, Len(str) - 1))
                                              + (str[Len(str)] - Digit0)
strconvParseUint(str) ==
    IF str # <<>> /\ \A i \in 1..Len(str) : str[i] \in Digit0..(Digit0 + 9)
      THEN Decimal(str) ELSE 0

\* parseValues with the load cells 0..nlcs-1 active
parseValues(input, cmd, nlcs) ==
    LET chk == checkData(input, cmd)
        inputs == stringsSplit(chk.data)
    IN  IF chk.err # "" THEN chk
        ELSE [err |-> "",
              data |-> [k \in 1..(IF Len(inputs) < nlcs THEN Len(inputs) ELSE nlcs) |->
                           strconvParseUint(inputs[k])]]

\* the tolerant read
GetADsWithTimeout(arrived, cmd, nlcs) ==
    LET response == readUntil(arrived)
        vals == parseValues(response.data, cmd, nlcs)
    IN  IF response.err # "" THEN Failure(response.err)
        ELSE IF Len(response.data) = 0 THEN NoResult
        ELSE IF vals.err # "" THEN NoResult
        ELSE vals

\* the strict read
GetADsStrictWithTimeout(arrived, cmd, nlcs) ==
    LET response == readUntil(arrived)
    IN  IF response.err # "" THEN Failure(response.err)
        ELSE IF Len(response.data) = 0 THEN Failure("empty response")
        ELSE parseValues(response.data, cmd, nlcs)

getData(arrived, cmd) ==
    LET data == readUntil(arrived)
    IN  IF data.err # "" THEN Failure(data.err) ELSE checkData(data.data, cmd)

\* updateValue and changeState: the raw response
updateValue(arrived) ==
    LET data == readUntil(arrived)
    IN  IF data.err # "" THEN Failure(data.err) ELSE data

Letters == [O |-> 79, K |-> 75, X |-> 88, V |-> 86, A |-> 65]
\* WriteZeros and WriteFactors: the write is taken as done when the response
\* contains "OK"
WriteAcked(arrived) ==
    LET response == updateValue(arrived)
    IN  response.err = "" /\ Contains(response.data, <<Letters.O, Letters.K>>)

\* big-endian uint32 of four bytes (the bits of a float32)
Uint32(b) == ((b[1] * 256 + b[2]) * 256 + b[3]) * 256 + b[4]

ReadFactors(arrived, cmd, nlcs) ==
    LET raw == readUntil(arrived)
        rnPos == Terminator(raw.data)
        payload == SubSeq(raw.data, 3, rnPos - 2)
    IN  IF raw.err # "" THEN Failure("sendCommand error")
        ELSE IF Len(raw.data) < 6 THEN Failure("response too short")
        ELSE IF rnPos = 0 - 1 THEN Failure("no line terminator")
        ELSE IF SubSeq(raw.data, 1, 2) # SubSeq(cmd, 1, 2) THEN Failure("wrong ID")
        ELSE IF rnPos < 2 THEN Failure("response too short before CRC")
        ELSE IF SubSeq(raw.data, rnPos - 1, rnPos) # crc16(SubSeq(raw.data, 1, rnPos - 2))
          THEN Failure("CRC mismatch")
        ELSE IF Len(payload) < 4 * (1 + nlcs) THEN Failure("payload too short")
        ELSE [err |-> "",
              data |-> [i \in 1..nlcs |-> Uint32(SubSeq(payload, 4 * i + 1, 4 * i + 4))]]

\* ---- one exchange with a bar (Leo485) ---------------------------------------
\* A driver call is one record of kind "serial": src is the driver function,
\* bar the id of the addressed bar, n the number of bits the line has flipped.
DriverFns == {"getData", "GetADs", "GetADsStrict", "ReadFactors", "WriteZeros"}
BarIDs == {0, 1}

Command(fn) ==
    CASE fn = "getData" -> <<Letters.V>>
      [] fn = "ReadFactors" -> <<Letters.X>>
      [] fn = "WriteZeros" -> <<Letters.O>>
      [] OTHER -> <<Letters.A>>

\* <ID0><ID1>|<payload><CRC0><CRC1><CR><LF>; a binary reply has no '|'
DeviceFrame(addr, b, binary) ==
    LET body == (IF binary THEN addr ELSE addr \o <<Pipe>>) \o b
    IN  body \o crc16(body) \o <<CR, LF>>

WireBytes == {LF, CR, Digit0}
ShortPayloads == UNION {[1..n -> WireBytes] : n \in 0..MaxPayload}
\* the reading 09743, two readings, an acknowledgement, and a payload that
\* repeats the checksum of its own header
TextPayloads(addr) ==
    ShortPayloads \cup
    {<<48, 57, 55, 52, 51>>, <<53, Pipe, 55>>, <<Letters.O, Letters.K>>,
     crc16(addr \o <<Pipe>>) \o <<45, LF>>}
\* float32 words: 1.0 and 0.5509338
FactorWords == {<<63, 128, 0, 0>>, <<63, 13, 10, 0>>}
RECURSIVE WordSeqs(_)
WordSeqs(k) ==
    IF k = 0 THEN {<<>>}
    ELSE {w \o t : w \in FactorWords, t \in WordSeqs(k - 1)}
BinaryPayloads == WordSeqs(1) \cup WordSeqs(1 + NLCs)

IsBinary(r) == r.src = "ReadFactors"
Payloads(r, addr) == IF IsBinary(r) THEN BinaryPayloads ELSE TextPayloads(addr)
SerialIdle == \A r \in Goroutines : r.kind = "serial" /\ r.pc = "done"

DriverCall(fn, id) ==
    /\ SerialIdle
    /\ ops' = One([NewOp("serial", 0, "sent", fn) EXCEPT
                      !.own = FALSE, !.bar = id, !.cmd = GetCommand(id, Command(fn))])
    /\ out' = ""
    /\ UNCHANGED <<sessVars, calVars, lc, calCalibratedID, storeRaw, testVars>>

\* the bar with id a answers with a frame of its own
DeviceAnswer(r, a, b) ==
    /\ r.kind = "serial"
    /\ r.pc = "sent"
    /\ LET addr == <<Digit0, a + Digit0>>
       IN  /\ b \in Payloads(r, addr)
           /\ CliMove(r, [r EXCEPT !.pc = "wire", !.addr = addr, !.payload = b,
                                   !.reply = DeviceFrame(addr, b, IsBinary(r))])

\* nothing, or a frame that stops before its terminator, arrives in time
DeviceSilent(r, k) ==
    /\ r.kind = "serial"
    /\ r.pc = "sent"
    /\ CliMove(r, [r EXCEPT !.pc = "wire",
                            !.reply = SubSeq(<<Digit0, r.bar + Digit0, Pipe, 53>>, 1, k)])

\* the line flips bit k of byte j of the payload
LineNoise(r, j, k) ==
    /\ r.kind = "serial"
    /\ r.pc = "wire"
    /\ r.n = 0
    /\ r.addr # <<>>
    /\ j \in 1..Len(r.payload)
    /\ LET at == (IF IsBinary(r) THEN 2 ELSE 3) + j
       IN  CliMove(r, [r EXCEPT !.n = 1, !.reply[at] = Xor(@, 2 ^ k)])

\* sendCommand returns and the driver function validates what arrived
Receive(r) ==
    /\ r.kind = "serial"
    /\ r.pc = "wire"
    /\ CliMove(r, [r EXCEPT !.pc = "done", !.res =
          CASE r.src = "getData" -> getData(r.reply, r.cmd)
            [] r.src = "GetADs" -> GetADsWithTimeout(r.reply, r.cmd, NLCs)
            [] r.src = "GetADsStrict" -> GetADsStrictWithTimeout(r.reply, r.cmd, NLCs)
            [] r.src = "ReadFactors" -> ReadFactors(r.reply, r.cmd, NLCs)
            [] r.src = "WriteZeros" ->
                 IF WriteAcked(r.reply) THEN NoResult ELSE Failure("false")])

\* ---- port discovery (AutoDetectPortTrace) ----------------------------------
\* One record of kind "detect". A probe is <<stage, port, answered>>, a trace
\* entry <<what, port or count>>.
PreferredPorts == {NoPort, 3, 102}
PortLists == {<<>>, <<3>>, <<3, 101>>}

\* position of the first enumerated port at or after i that is not the
\* configured one, Len + 1 if there is none
NextEnumerated(r, i) ==
    LET I == {k \in i..Len(r.ports) : r.preferred = NoPort \/ r.ports[k] # r.preferred}
    IN  IF I = {} THEN Len(r.ports) + 1 ELSE CHOOSE k \in I : \A j \in I : k <= j

\* what follows the probe of the configured port: the enumeration, its
\* first probe or the scan, or the return
AfterConfigured(r) ==
    IF Len(r.ports) > 0
      THEN LET t == [r EXCEPT !.trace = Append(@, <<"enumerated", Len(r.ports)>>),
                              !.step = NextEnumerated(r, 1)]
           IN  IF t.step > Len(r.ports)
                 THEN [t EXCEPT !.pc = "returned",
                                !.trace = Append(@, <<"no enumerated port responded", 0>>)]
                 ELSE [t EXCEPT !.pc = "enumerated"]
    ELSE IF r.windows
      THEN [r EXCEPT !.pc = "scan", !.step = 1,
                     !.trace = Append(@, <<"falling back to scan", 0>>)]
    ELSE [r EXCEPT !.pc = "returned"]

AutoDetectPortTrace(valid, preferred, ports, windows) ==
    /\ \A r \in Goroutines : r.kind = "detect" /\ r.pc = "returned"
    /\ LET r == [NewOp("detect", 0, "configured", "") EXCEPT
                    !.own = FALSE, !.open = FALSE, !.preferred = preferred,
                    !.ports = ports, !.windows = windows]
       IN  ops' = One(IF ~valid THEN [r EXCEPT !.pc = "returned"]
                      ELSE IF preferred # NoPort THEN r
                      ELSE AfterConfigured(r))
    /\ out' = ""
    /\ UNCHANGED <<sessVars, calVars, lc, calCalibratedID, storeRaw, testVars>>

\* TestPort(preferred, ...)
ProbeConfigured(r, ok) ==
    /\ r.kind = "detect"
    /\ r.pc = "configured"
    /\ LET t == [r EXCEPT !.trace = Append(@, <<"probing configured", r.preferred>>),
                          !.probes = Append(@, <<"configured", r.preferred, ok>>)]
       IN  CliMove(r, IF ok
                           THEN [t EXCEPT !.pc = "returned", !.found = r.preferred,
                                          !.trace = Append(@, <<"found", r.preferred>>)]
                           ELSE AfterConfigured(t))

\* variant: the configured port is probed again among the enumerated ones
ProbeEnumerated_noSkip(r, ok) ==
    /\ r.kind = "detect"
    /\ r.pc = "enumerated"
    /\ LET at == IF r.step = NextEnumerated(r, 1) THEN 1 ELSE r.step
           name == r.ports[at]
           t == [r EXCEPT !.trace = Append(@, <<"probing", name>>),
                          !.probes = Append(@, <<"enumerated", name, ok>>),
                          !.step = IF at + 1 > r.step THEN at + 1 ELSE r.step + 1]
       IN  CliMove(r, IF ok
                           THEN [t EXCEPT !.pc = "returned", !.found = name,
                                          !.trace = Append(@, <<"found", name>>)]
                         ELSE IF t.step > Len(r.ports)
                           THEN [t EXCEPT !.pc = "returned",
                                          !.trace = Append(@, <<"no enumerated port responded", 0>>)]
                         ELSE t)

\* one iteration of for _, name := range ports that reaches TestPort
ProbeEnumerated(r, ok) ==
    /\ r.kind = "detect"
    /\ r.pc = "enumerated"
    /\ LET name == r.ports[r.step]
           t == [r EXCEPT !.trace = Append(@, <<"probing", name>>),
                          !.probes = Append(@, <<"enumerated", name, ok>>),
                          !.step = NextEnumerated(r, r.step + 1)]
       IN  CliMove(r, IF ok
                           THEN [t EXCEPT !.pc = "returned", !.found = name,
                                          !.trace = Append(@, <<"found", name>>)]
                         ELSE IF t.step > Len(r.ports)
                           THEN [t EXCEPT !.pc = "returned",
                                          !.trace = Append(@, <<"no enumerated port responded", 0>>)]
                         ELSE t)

\* one iteration of for i := 1; i <= 64; i++
ProbeScan(r, ok) ==
    /\ r.kind = "detect"
    /\ r.pc = "scan"
    /\ LET i == r.step
           t == [r EXCEPT !.trace = IF i <= TraceSample
                                      THEN Append(@, <<"probing (scan)", i>>) ELSE @,
                          !.probes = Append(@, <<"scan", i, ok>>),
                          !.step = i + 1]
       IN  CliMove(r, IF ok
                           THEN [t EXCEPT !.pc = "returned", !.found = i,
                                          !.trace = Append(@, <<"found (scan)", i>>)]
                         ELSE IF i + 1 > ScanPorts
                           THEN [t EXCEPT !.pc = "returned",
                                          !.trace = Append(@, <<"scan found nothing", 0>>)]
                         ELSE t)

\* ---- live status poll --------------------------------------------------------
HandleCalADC ==
    IF ~bars
      THEN Reject("not connected")
      ELSE /\ out' = IF opKind = "calibrationSampling" \/ opKind = "calibrationFlash"
                       THEN "adc snapshot" ELSE "adc serial"
           /\ UNCHANGED <<sessVars, calVars, lc, calCalibratedID, storeRaw, testVars, ops>>

\* ---- the goroutines' steps -----------------------------------------------------
\* the step is a step of goroutine r
Step(r) ==
    \/ SampleADCs(r)
    \/ SampleFinalize(r, SampleReading(r.step))
    \/ \E ack \in BOOLEAN : FlashEnter(r, ack)
    \/ \E a \in SUBSET r.notReady : FlashHandshake(r, a)
    \/ FlashBar(r)
    \/ \E ack \in BOOLEAN : FlashZeros(r, ack)
    \/ \E ack \in BOOLEAN : FlashFactors(r, ack)
    \/ FlashReboot(r)
    \/ TestSettle(r)
    \/ \E ok \in BOOLEAN : TestReadFactors(r, ok)
    \/ \E z \in ZeroVals : TestCollectZeros(r, z)
    \/ TestLoop(r)
    \/ TestSkip(r)
    \/ TestReceiveZeros(r)

\* the step is the return of goroutine r
Returns(r) == Step(r) /\ BagCardinality(ops') < BagCardinality(ops)

\* the step is a device round trip by goroutine r
RoundTrip(r) ==
    \/ ~r.ctx /\ SampleADCs(r)
    \/ \E ack \in BOOLEAN : ~MissingFactors(r) /\ FlashEnter(r, ack)
    \/ \E a \in SUBSET r.notReady : ~r.ctx /\ FlashHandshake(r, a)
    \/ \E ack \in BOOLEAN : FlashZeros(r, ack)
    \/ \E ack \in BOOLEAN : FlashFactors(r, ack)
    \/ FlashReboot(r)
    \/ \E ok \in BOOLEAN : ~r.ctx /\ TestReadFactors(r, ok)
    \/ \E z \in ZeroVals : ~r.ctx /\ TestCollectZeros(r, z)
    \/ TestSnapshot(r)

\* ---- properties ----------------------------------------------------------------
ValidSteps == {i \in StepInputs : i >= 0 /\ i < PlanLen}
InvalidSteps == StepInputs \ ValidSteps

\* a request that starts an operation on a connected session
StartRequest ==
    /\ bars
    /\ \/ \E i \in ValidSteps : HandleCalStartStep(i)
       \/ HandleCalFlash
       \/ HandleTestStart
       \/ \E src \in FlashSources : HandleFlashStart(src)

\* C1: starting a new operation (calibration step, calibration flash, test,
\* flash) while another one runs is accepted, and afterwards the only goroutine
\* whose context is not cancelled is the one of the new operation.
C1_StartSupersedes ==
    [][(StartRequest /\ \E r \in Goroutines : ~r.ctx) =>
         /\ out' = "ok"
         /\ \A q \in BagToSet(ops') : ~q.ctx => (q.own /\ CopiesIn(q, ops') = 1)]_vars

\* goroutine r was cancelled and another operation now owns the session
Superseded(r) == r.ctx /\ \E q \in Goroutines : q.own

\* C2: once a superseding operation has begun, the operation it cancelled
\* performs no further device round trip.
C2_NoRoundTripOnceSuperseded ==
    [][\A r \in Goroutines : RoundTrip(r) => ~Superseded(r)]_vars

SamplingOrFlash == {"calibrationSampling", "calibrationFlash", "flash"}

\* C3: while a calibration sampling, calibration flash or stand-alone flash is
\* in flight, a live-status poll is never served by reading the serial link.
C3_PollServedFromSnapshot ==
    [][(HandleCalADC /\ out' = "adc serial") =>
         ~\E r \in Goroutines : r.kind \in SamplingOrFlash]_vars

\* C4: when an operation terminates (completed, failed or cancelled) and no
\* other operation is running, the session is Idle: the operation kind is empty.
C4_TerminationLeavesIdle ==
    [][\A r \in Goroutines : (Returns(r) /\ BagCardinality(ops) = 1) => opKind' = ""]_vars

\* C5: a cancelled operation starts no new device round trip, and no round
\* trip is issued on a port that disconnect has closed.
C5_NoRoundTripAfterCancel ==
    [][\A r \in Goroutines : RoundTrip(r) => (~r.ctx /\ r.open)]_vars

\* C6: the last event of an operation that returns after it was cancelled is
\* "stopped".
C6_CancelledEmitsStopped ==
    [][\A r \in Goroutines : (r.ctx /\ Returns(r)) => out' = "stopped"]_vars

\* C7: a start-step request with a step index outside 0..PlanLen-1 is
\* rejected as "invalid stepIndex", starts no sampling goroutine and leaves
\* ad0, adv and the received-step count unchanged.
C7_InvalidStepRejected ==
    [][\A i \in InvalidSteps : (bars /\ HandleCalStartStep(i)) =>
         /\ out' = "invalid stepIndex"
         /\ BagCardinality(ops') = BagCardinality(ops)
         /\ \A q \in BagToSet(ops') : q.pc = "sampling" => \E r \in Goroutines : r.pc = "sampling"
         /\ calAd0' = calAd0 /\ calAdv' = calAdv /\ calReceived' = calReceived]_vars

\* an invalid step index was rejected while a run had already stored readings
C7_Witness == out = "invalid stepIndex" /\ calAd0 # NoMatrix /\ calReceived > 0

\* the step is the completion of step 0 by goroutine r
CompletesZero(r) == r.step = 0 /\ SampleFinalize(r, SampleReading(r.step))
\* the step is the completion of a Weight step by goroutine r
CompletesWeight(r) == r.step # 0 /\ SampleFinalize(r, SampleReading(r.step))

\* C8: when step 0 completes, ad0 holds the zero reading vector in every
\* calibration row, adv is all zero and exactly one step is counted as received.
C8_ZeroStepStartsFreshRun ==
    [][\A r \in Goroutines : CompletesZero(r) =>
         /\ calAd0' = [row \in 1..(Calibs * NLCs) |-> SampleReading(0)]
         /\ calAdv' = [row \in 1..NLoads |-> [c \in 1..Cols |-> 0]]
         /\ calReceived' = 1]_vars

\* C9 as stated: every completed Weight step stores its reading vector in its
\* row of adv and changes no other row of adv and nothing of ad0.
C9_EveryWeightStepWritesRow ==
    [][\A r \in Goroutines : CompletesWeight(r) =>
         /\ calAdv' # NoMatrix
         /\ calAdv'[StepRow(r.step) + 1] = SampleReading(r.step)
         /\ calAd0' = calAd0]_vars

\* C9 amended: a Weight step that completes while adv is allocated stores its
\* reading vector in the row of adv addressed by the step's index and changes
\* no other row of adv and nothing of ad0; without adv it stores nothing.
C9_WeightStepWritesOwnRow ==
    [][\A r \in Goroutines : CompletesWeight(r) =>
         /\ calAd0' = calAd0
         /\ IF calAdv = NoMatrix
              THEN calAdv' = NoMatrix
              ELSE /\ Len(calAdv') = Len(calAdv)
                   /\ \A row \in 1..Len(calAdv) :
                        calAdv'[row] = IF row = StepRow(r.step) + 1
                                        THEN SampleReading(r.step) ELSE calAdv[row]]_vars

\* the first and the last Weight step of the plan have been stored, each in
\* its own row of adv
C9_Witness ==
    /\ out \in {"stepDone", "samplesDone"}
    /\ calAd0 # NoMatrix
    /\ calAdv # NoMatrix
    /\ calAdv[1] = SampleReading(1)
    /\ calAdv[NLoads] = SampleReading(PlanLen - 1)

\* C10: compute is accepted only when the received-step count equals the
\* number of planned steps; a compute request in any other state is rejected
\* and changes no LoadCell record.
C10_ComputeOnlyWhenComplete ==
    [][\A ok \in BOOLEAN, f \in FactorVals : HandleCalCompute(ok, f) =>
         /\ out' = "computed" => (calReceived = calStepsLen /\ calStepsLen = PlanLen)
         /\ calReceived # calStepsLen =>
              (out' = "samples not complete" \/ out' = "busy") /\ lc' = lc]_vars

\* a complete run has been computed into LoadCell records
C10_Witness == out = "computed" /\ lc # NoLC /\ calReceived = PlanLen

\* ---- flash --------------------------------------------------------------------
\* the step is a zero or factor write of flash r to its current bar
IsWrite(r) ==
    \E ack \in BOOLEAN :
        \/ FlashZeros(r, ack) \/ FlashFactors(r, ack)
        \/ CliZeros(r, ack) \/ CliFactors(r, ack)

\* the step is the last allowed attempt of a write of flash r, and the bar
\* does not answer "OK"
WriteGivenUp(r) ==
    /\ r.n = WriteAttempts
    /\ \/ FlashZeros(r, FALSE) \/ FlashFactors(r, FALSE)
       \/ CliZeros(r, FALSE) \/ CliFactors(r, FALSE)

\* C11: when the zero or factor write of a bar is still refused at its third
\* attempt and bars remain, the flash does not end: it goes on to the zero
\* write of the next bar.
C11_FailedBarDoesNotStopFlash ==
    [][\A r \in Goroutines :
          r.bar + 1 < NBars /\ WriteGivenUp(r)
            => \E q \in BagToSet(ops') : q.pc = "fl_zeros" /\ q.bar = r.bar + 1]_vars

\* the step is the last handshake round of flash r and leaves a bar that
\* has not answered "Enter"
HandshakeGivenUp(r) ==
    /\ r.n = HandshakeRounds
    /\ \E acks \in SUBSET r.notReady :
          /\ acks # r.notReady
          /\ (~r.ctx /\ FlashHandshake(r, acks)) \/ CliHandshake(r, acks)

\* C12: a flash writes zeros or factors only once every bar has answered
\* "Enter" within the six handshake rounds; a flash whose sixth round leaves a
\* bar unanswered returns an error, and so never reaches a write.
C12_NoWriteBeforeAllEnter ==
    [][\A r \in Goroutines :
          /\ IsWrite(r) => r.notReady = {}
          /\ r.pc = "fl_handshake" => r.n <= HandshakeRounds
          /\ HandshakeGivenUp(r)
               => out' = "error" /\ BagCardinality(ops') < BagCardinality(ops)]_vars

\* the last handshake round of a flash, some bars have answered and some not
C12_Witness ==
    \E r \in Goroutines :
        /\ r.pc = "fl_handshake" /\ r.n = HandshakeRounds
        /\ r.notReady # {} /\ r.notReady # AllBars

\* the step is the first bars.OpenToUpdate() of flash r, refused
FirstEnterRefused(r) ==
    /\ ~MissingFactors(r)
    /\ r.n = 0
    /\ FlashEnter(r, FALSE) \/ CliOpenToUpdate(r, FALSE)

\* C13: a flash whose first OpenToUpdate is refused does not report the
\* failure yet: it stays alive to make the call once more.
C13_RefusedEnterIsRetried ==
    [][\A r \in Goroutines :
          FirstEnterRefused(r)
            => out' # "error" /\ BagCardinality(ops') = BagCardinality(ops)]_vars

\* the step is a step of a flash goroutine of the server
FlashStepOf(r) ==
    /\ r.kind \in {"calibrationFlash", "flash"}
    /\ Step(r)

\* C14: once compute has stored the calibrated record, no step of a flash,
\* its failure and its cancelled return included, changes the record, its
\* id, or the zeros and factors a later flash would read.
C14_FlashKeepsArtifact ==
    [][\A r \in Goroutines :
          calCalibratedID # 0 /\ FlashStepOf(r)
            => /\ calCalibratedID' = calCalibratedID
               /\ storeRaw' = storeRaw
               /\ lc' = lc
               /\ storeRaw' # NoRecord]_vars

\* a flash of the computed record has failed
C14_Witness ==
    /\ out = "error" /\ ops = EmptyBag /\ calReceived = PlanLen
    /\ calCalibratedID = 1 /\ storeRaw = EncodeCalibratedJSON(lc) /\ lc # NoLC

\* ---- test mode: re-zero -------------------------------------------------------
\* a snapshot loop runs, every zero update is completed and delivered
ZeroUpdatesDone ==
    /\ \E r \in Goroutines : r.pc = "t_loop"
    /\ \A r \in Goroutines : r.kind # "testZero"
    /\ testZeroCh = <<>>

\* C15: once every zero update is completed and nothing waits in the
\* hand-off slot, the zero vector of the snapshot loop is the one that was
\* collected last.
C15_LatestZerosWin == ZeroUpdatesDone => testZeros = lastCollected

\* the step is the timer case of the select of snapshot loop r
TestTick(r) == TestSnapshot(r) \/ TestSkip(r)

\* C16: every timer tick of a running snapshot loop produces a snapshot,
\* whether or not a zero update is being collected or delivered.
C16_EveryTickProducesSnapshot ==
    [][\A r \in Goroutines : ~r.ctx /\ TestTick(r) => out' = "snapshot"]_vars

\* ---- sampling of the command-line program -----------------------------------
PhaseRank(pc) ==
    CASE pc = "live" -> 0 [] pc = "ignoring" -> 1 [] pc = "averaging" -> 2
      [] pc = "finished" -> 3 [] OTHER -> 4

\* the step is a step of manipulateADC r
AdcStep(r) == AdcKeyCheck(r) \/ \E reads \in {AllOk, AllFail} : AdcTick(r, reads)

\* C17: a step of manipulateADC keeps the phase or moves it to the next one
\* of live, ignoring, averaging, finished (or ends the function); it leaves
\* "live" for "ignoring" only by reading the key 'C', and every later change
\* of phase is made by the counters, in the part of the iteration that reads
\* no key.
C17_PhasesMoveForward ==
    [][\A r \in Goroutines : r.kind = "cliSample" /\ AdcStep(r) =>
          \E q \in BagToSet(ops') :
            /\ \/ q.pc = "cancelled"
               \/ PhaseRank(q.pc) = PhaseRank(r.pc)
               \/ PhaseRank(q.pc) = PhaseRank(r.pc) + 1
            /\ r.pc = "live" /\ q.pc # "live" /\ q.pc # "cancelled"
                 => q.pc = "ignoring" /\ r.src = "go" /\ r.step = 0
            /\ r.pc # "live" /\ q.pc # r.pc => r.step = 1]_vars

\* manipulateADC has gone through every phase
C17_Witness ==
    \E r \in Goroutines : r.kind = "cliSample" /\ r.pc = "finished" /\ r.zeros = TrueFlat

\* C18: manipulateADC, coming to its key check in phase live, ignoring or
\* averaging with ESC waiting in the key channel, ends cancelled and
\* without a reading vector.
C18_CancelInEveryPhase ==
    [][\A r \in Goroutines :
          /\ r.kind = "cliSample" /\ r.src = "esc"
          /\ r.pc \in {"live", "ignoring", "averaging"}
          /\ AdcKeyCheck(r)
          => \E q \in BagToSet(ops') : q.pc = "cancelled" /\ q.zeros = NoZeros]_vars

\* at least one averaged iteration of r got an answer from the device
HasValidTick(r) ==
    \/ r.kind = "cliSample" /\ \E i \in AllBars : \E k \in 1..Len(r.samples[i]) :
                                   r.samples[i][k] # NoReading
    \/ r.kind = "cliZeros" /\ r.count > 0

\* r has averaged its iterations
Averaged(r) ==
    \/ r.kind = "cliSample" /\ r.pc \in {"finished", "returned"}
    \/ r.kind = "cliZeros" /\ r.pc = "returned"

\* C19: with a device that, in every iteration, either answers with its
\* fixed reading or does not answer at all, an average over at least one
\* answered iteration is exactly that reading.
C19_FailedTicksNotAveraged ==
    \A r \in Goroutines : Averaged(r) /\ HasValidTick(r) => r.zeros = TrueFlat

\* the step is the read that follows the averaged iterations of r
ReadAfterAveraging(r, reads) ==
    \/ r.pc = "finished" /\ AdcTick(r, reads)
    \/ CollectAverage(r, reads)

\* C20: when no averaged iteration got an answer and the device answers
\* the read that follows them, the function returns that reading.
C20_OneShotWhenNoValidTick ==
    [][\A r \in Goroutines :
          ~HasValidTick(r) /\ ReadAfterAveraging(r, AllOk)
            => \E q \in BagToSet(ops') : q.pc = "returned" /\ q.zeros = TrueFlat]_vars

\* ---- calibration of the command-line program --------------------------------
CalRuns == {r \in Goroutines : r.kind = "cliCalib"}
\* the run has sampled every step of its plan
PlanSampled(r) == r.pc \in {"clear", "compute", "returned"}

\* C21: a run over nbars bars with nlcs active channels each samples exactly
\* 1 + 3*(nbars-1)*nlcs steps: the first is the Zero step and every later
\* one is a Weight step.
C21_PlanIsZeroThenWeights ==
    \A r \in CalRuns :
        /\ \A i \in 1..Len(r.plan) : r.plan[i] = (IF i = 1 THEN "zero" ELSE "weight")
        /\ Len(r.plan) <= 1 + 3 * (r.nbars - 1) * r.nlcs
        /\ PlanSampled(r) => Len(r.plan) = 1 + 3 * (r.nbars - 1) * r.nlcs

C21_Witness ==
    \E r \in CalRuns : PlanSampled(r) /\ r.nbars = 2 /\ r.nlcs = 2 /\ Len(r.plan) = 7

\* C22 as stated: over N bars a sampled plan has exactly 1 + 3*(N-1) steps.
C22_PlanIsOnePlusThreePerBar ==
    \A r \in CalRuns : PlanSampled(r) => Len(r.plan) = 1 + 3 * (r.nbars - 1)

\* C22: with L active channels per bar every bar after the first adds 3*L
\* Weight steps to the one Zero step; 2 bars with 2 channels each give a
\* plan of exactly 7 steps.
C22_PlanGrowsWithChannels ==
    \A r \in CalRuns : PlanSampled(r) =>
        /\ Len(r.plan) - 1 = (r.nbars - 1) * (3 * r.nlcs)
        /\ (r.nbars = 2 /\ r.nlcs = 2) => Len(r.plan) = 7

C22_Witness ==
    \E r \in CalRuns : r.pc = "returned" /\ r.nbars = 2 /\ r.nlcs = 2


\* C30: a run of the command-line calibration ends in log.Fatal only for an
\* error of its configuration found before the port is opened; a numeric
\* failure of the compute and a port that does not open are not among the
\* causes.
C30_FatalOnlyForConfiguration ==
    \A r \in CalRuns : r.pc = "fatal" => (r.src = "config" /\ ~r.open)

\* ---- frames of the device protocol ------------------------------------------
Exchanges == {r \in Goroutines : r.kind = "serial" /\ r.pc = "done"}
\* the addressed bar answered and the line changed nothing
Intact(r) == r.n = 0 /\ r.addr = SubSeq(r.cmd, 1, 2)

\* C23: a reply frame of the addressed bar whose CRC field is crc16 of the
\* address, the separator and the payload b validates, and the payload
\* returned is b.
C23_CrcRoundTrip ==
    \A r \in Exchanges :
        (r.src = "getData" /\ Intact(r)) => (r.res.err = "" /\ r.res.data = r.payload)

\* C24: when the frame a bar sent validates, the same frame with one bit of
\* its payload flipped does not.
C24_BitFlipRejected ==
    \A r \in Exchanges :
        (/\ r.src = "getData"
         /\ r.n = 1
         /\ checkData(DeviceFrame(r.addr, r.payload, FALSE), r.cmd).err = "")
        => r.res.err # ""

\* C25: a reply whose first two bytes are not the address bytes of the
\* command is rejected by every driver function (the tolerant read rejects
\* by returning nothing).
C25_WrongAddressRejected ==
    \A r \in Exchanges :
        (Len(r.reply) >= 2 /\ SubSeq(r.reply, 1, 2) # SubSeq(r.cmd, 1, 2))
        => (r.res.err # "" \/ (r.src = "GetADs" /\ r.res.data = <<>>))

\* C26: the tolerant read returns no error, whatever arrived.
C26_TolerantReadNeverFails ==
    \A r \in Exchanges : r.src = "GetADs" => r.res.err = ""

\* C27: for a well-formed binary reply of the addressed bar ReadFactors
\* returns the words after the first one, in order, one per active channel.
C27_ReadFactorsDecodesWords ==
    \A r \in Exchanges :
        (r.src = "ReadFactors" /\ Intact(r) /\ Len(r.payload) = 4 * (1 + NLCs))
        => /\ r.res.err = ""
           /\ r.res.data = [i \in 1..NLCs |-> Uint32(SubSeq(r.payload, 4 * i + 1, 4 * i + 4))]

\* ---- port discovery ----------------------------------------------------------
Detections == {r \in Goroutines : r.kind = "detect"}
StageRank(stage) == CASE stage = "configured" -> 1 [] stage = "enumerated" -> 2 [] OTHER -> 3
\* the candidates of a discovery, in the order of the algorithm
RECURSIVE WithoutPort(_, _)
WithoutPort(ports, name) ==
    IF ports = <<>> THEN <<>>
    ELSE IF Head(ports) = name THEN WithoutPort(Tail(ports), name)
    ELSE <<Head(ports)>> \o WithoutPort(Tail(ports), name)
Candidates(r) ==
    (IF r.preferred # NoPort THEN <<r.preferred>> ELSE <<>>)
    \o (IF Len(r.ports) > 0 THEN WithoutPort(r.ports, r.preferred)
        ELSE IF r.windows THEN [i \in 1..ScanPorts |-> i]
        ELSE <<>>)
ProbedPorts(r) == [i \in 1..Len(r.probes) |-> r.probes[i][2]]

\* C28: the ports probed so far are the first candidates in the order
\* configured port, enumerated ports without the configured one, numeric
\* scan; no probe follows an answered one; the port returned is the one
\* that answered, and nothing is returned only after every candidate failed.
C28_ProbesInOrderUntilSuccess ==
    \A r \in Detections :
        /\ Len(r.probes) <= Len(Candidates(r))
        /\ ProbedPorts(r) = SubSeq(Candidates(r), 1, Len(r.probes))
        /\ \A i, j \in 1..Len(r.probes) :
               i < j => (StageRank(r.probes[i][1]) <= StageRank(r.probes[j][1])
                          /\ ~r.probes[i][3])
        /\ (r.probes # <<>> /\ r.probes[Len(r.probes)][3]) =>
               (r.pc = "returned" /\ r.found = r.probes[Len(r.probes)][2])
        /\ (r.pc = "returned" /\ r.found # NoPort) =>
               (r.probes # <<>> /\ r.probes[Len(r.probes)][3])
        /\ (r.pc = "returned" /\ r.found = NoPort /\ r.probes # <<>>) =>
               Len(r.probes) = Len(Candidates(r))

C28_Witness ==
    \E r \in Detections :
        /\ r.pc = "returned" /\ r.found = 101
        /\ r.preferred = 3 /\ r.ports = <<3, 101>>
        /\ Len(r.probes) = 2

\* the ports of the "probing" entries of a trace, in order
RECURSIVE ProbingEntries(_)
ProbingEntries(trace) ==
    IF trace = <<>> THEN <<>>
    ELSE IF Head(trace)[1] \in {"probing configured", "probing", "probing (scan)"}
      THEN <<Head(trace)[2]>> \o ProbingEntries(Tail(trace))
    ELSE ProbingEntries(Tail(trace))

\* C29: the trace has, in probing order, one entry for every probe made.
C29_TraceHasEveryProbe ==
    \A r \in Detections : ProbingEntries(r.trace) = ProbedPorts(r)

\* goroutine r has been cancelled or superseded: its context is cancelled, or
\* the session's cancel handle is no longer its own
Ousted(r) == r.ctx \/ ~r.own

\* C31: a step of an operation that has been cancelled or superseded leaves
\* the session's operation kind and cancel handle as they are; in particular
\* its return does not clear the handle of the operation that runs now.
C31_OnlyOwnerChangesSession ==
    [][\A r \in Goroutines : (Ousted(r) /\ Step(r)) =>
         /\ opKind' = opKind
         /\ opCancel' = opCancel
         /\ \A q \in Goroutines : (q # r /\ q.own) => q \in BagToSet(ops')]_vars

\* C32: a calibration step whose context is cancelled (by stop, disconnect or
\* a superseding operation) stores nothing when its goroutine ends: ad0, adv
\* and the received-step count stay as they are.
C32_CancelledStepStoresNothing ==
    [][\A r \in Goroutines :
         (r.ctx /\ SampleFinalize(r, SampleReading(r.step))) =>
           /\ calAd0' = calAd0
           /\ calAdv' = calAdv
           /\ calReceived' = calReceived]_vars

\* the plan steps whose readings the matrices of the current run hold: step 0
\* once ad0 is allocated, and every Weight step whose row of adv is written
StoredSteps ==
    (IF calAd0 = NoMatrix THEN {} ELSE {0})
      \cup (IF calAdv = NoMatrix THEN {}
            ELSE {i \in 1..(PlanLen - 1) : calAdv[StepRow(i) + 1] # [c \in 1..Cols |-> 0]})

\* C33: the received-step count is the number of distinct plan steps whose
\* readings are stored in the current run, so a count equal to the plan length
\* means that every planned row of adv has been written.
C33_CountIsStoredSteps == calReceived = Cardinality(StoredSteps)

\* C34: a start-step request that is rejected leaves the session as it was:
\* no goroutine is cancelled, and the operation kind, the cancel handle and
\* the matrices of the run are unchanged.
C34_RejectedStartChangesNothing ==
    [][\A i \in StepInputs : (HandleCalStartStep(i) /\ out' # "ok") =>
         /\ ops' = ops
         /\ opKind' = opKind
         /\ opCancel' = opCancel
         /\ UNCHANGED calVars]_vars

\* a re-zero goroutine is inside its collection of zeros
ZeroCollecting == \E q \in Goroutines : q.kind = "testZero" /\ q.pc = "z_collect"

\* C35: the snapshot loop makes no ADC read while a re-zero collection is
\* in progress.
C35_NoSnapshotReadWhileZeroing ==
    [][\A r \in Goroutines : TestSnapshot(r) => ~ZeroCollecting]_vars

\* the step is a device read, a store or a hand-over by re-zero goroutine q
ZeroActs(q) ==
    \/ \E ok \in BOOLEAN, z \in ZeroVals : ZeroCollect(q, ok, z)
    \/ ZeroStore(q)
    \/ ZeroSend(q) /\ testZeroCh' # testZeroCh

\* C36: a stop or disconnect issued while a re-zero collection is in progress
\* cancels that collection, and a re-zero goroutine reads the device, stores
\* its zeros or hands them over only while it is not cancelled and the test
\* run it belongs to is still the operation of the session.
C36_StopEndsZeroCollection ==
    [][/\ ((HandleStopOp \/ HandleDisconnect) /\ ZeroCollecting) =>
            \A q \in BagToSet(ops') : q.kind = "testZero" => q.ctx
       /\ \A q \in Goroutines :
            ZeroActs(q) => (~q.ctx /\ opKind = "test" /\ opCancel)]_vars

\* C37: the LoadCell records change only in a step of factor computation:
\* no other operation creates them or, once they are written, modifies them.
C37_OnlyComputeWritesLoadCells ==
    [][lc' # lc => \E ok \in BOOLEAN, f \in FactorVals : HandleCalCompute(ok, f)]_vars

\* every placement of a weight on nbars bars: a bay between two neighbouring
\* bars, left/middle/right, front/back
AllPlacements(nbars) ==
    {<<bay, side, fb>> : bay \in 0..(nbars - 2), side \in 0..2, fb \in 0..1}

\* C38: the Weight steps of a fully sampled plan name every placement of its
\* nbars - 1 bays exactly once, whatever the number of load cells per bar.
C38_EveryPlacementOnce ==
    \A r \in CalRuns : PlanSampled(r) =>
        /\ {r.placed[j] : j \in 1..Len(r.placed)} = AllPlacements(r.nbars)
        /\ Len(r.placed) = Cardinality(AllPlacements(r.nbars))

AdcRuns == {r \in Goroutines : r.kind = "cliSample"}

C40_FailedReadHoldsOver ==
    [][\A r \in AdcRuns :
          (r.pc \in {"live", "ignoring", "averaging"} /\ AdcTick(r, AllFail)) =>
             \E q \in BagToSet(ops') : q.cur = r.cur]_vars

\* ---- specifications ----------------------------------------------------------
\* the whole session: every kind of operation, one reading, an acknowledging device
Next ==
    \/ (~bars /\ \E f \in BOOLEAN : HandleConnect(f))
    \/ HandleDisconnect
    \/ HandleStopOp
    \/ \E i \in {0 - 1, 0} : HandleCalStartStep(i)
    \/ \E r \in Goroutines : SampleADCs(r)
    \/ \E r \in Goroutines : SampleFinalize(r, SampleReading(r.step))
    \/ HandleCalFlash
    \/ HandleFlashStart("uploaded")
    \/ \E r \in Goroutines, ack \in BOOLEAN : FlashEnter(r, ack)
    \/ \E r \in Goroutines : FlashHandshake(r, r.notReady)
    \/ \E r \in Goroutines : FlashBar(r)
    \/ \E r \in Goroutines : FlashZeros(r, TRUE)
    \/ \E r \in Goroutines : FlashFactors(r, TRUE)
    \/ \E r \in Goroutines : FlashReboot(r)
    \/ HandleTestStart
    \/ \E r \in Goroutines : TestSettle(r)
    \/ \E r \in Goroutines : TestReadFactors(r, TRUE)
    \/ \E r \in Goroutines : TestCollectZeros(r, Flat(0))
    \/ \E r \in Goroutines : TestLoop(r)
    \/ HandleCalADC

Spec == Init /\ [][Next]_vars

\* one calibration run after another on one connection: the first, second
\* and last step of the plan and the indices next to its ends, compute
NextCal ==
    \/ (~bars /\ HandleConnect(TRUE))
    \/ HandleStopOp
    \/ \E i \in StepInputs : HandleCalStartStep(i)
    \/ \E r \in Goroutines : SampleADCs(r)
    \/ \E r \in Goroutines : SampleFinalize(r, SampleReading(r.step))
    \/ \E ok \in BOOLEAN, f \in FactorVals : HandleCalCompute(ok, f)

SpecCal == Init /\ [][NextCal]_vars

\* flashes: one calibration run in plan order, compute, then one flash at a
\* time, of the server (stopped or not) or of the command-line program,
\* against bars that answer or not
NextFlash ==
    \/ (~bars /\ HandleConnect(TRUE))
    \/ (CliIdle /\ HandleStopOp)
    \/ (ops = EmptyBag /\ calReceived < PlanLen /\ HandleCalStartStep(calReceived))
    \/ \E r \in Goroutines : SampleADCs(r)
    \/ \E r \in Goroutines : SampleFinalize(r, SampleReading(r.step))
    \/ (ops = EmptyBag /\ \E f \in FactorVals : HandleCalCompute(TRUE, f))
    \/ (ops = EmptyBag /\ HandleCalFlash)
    \/ (ops = EmptyBag /\ \E src \in FlashSources : HandleFlashStart(src))
    \/ \E r \in Goroutines, ack \in BOOLEAN : FlashEnter(r, ack)
    \/ \E r \in Goroutines : \E acks \in SUBSET r.notReady : FlashHandshake(r, acks)
    \/ \E r \in Goroutines : FlashBar(r)
    \/ \E r \in Goroutines, ack \in BOOLEAN : FlashZeros(r, ack)
    \/ \E r \in Goroutines, ack \in BOOLEAN : FlashFactors(r, ack)
    \/ \E r \in Goroutines : FlashReboot(r)
    \/ \E src \in {"params", "uploaded"} : CliFlashStart(src)
    \/ \E r \in Goroutines, ack \in BOOLEAN : CliOpenToUpdate(r, ack)
    \/ \E r \in Goroutines : \E acks \in SUBSET r.notReady : CliHandshake(r, acks)
    \/ \E r \in Goroutines, ack \in BOOLEAN : CliZeros(r, ack)
    \/ \E r \in Goroutines, ack \in BOOLEAN : CliFactors(r, ack)
    \/ \E r \in Goroutines : CliReboot(r)

SpecFlash == Init /\ [][NextFlash]_vars

\* test mode: test runs started, stopped and started again, zero updates
\* requested at any time
NextTest ==
    \/ (~bars /\ HandleConnect(TRUE))
    \/ HandleStopOp
    \/ HandleTestStart
    \/ \E r \in Goroutines : TestSettle(r)
    \/ \E r \in Goroutines : TestReadFactors(r, TRUE)
    \/ \E r \in Goroutines, z \in ZeroVals : TestCollectZeros(r, z)
    \/ \E r \in Goroutines : TestLoop(r)
    \/ \E r \in Goroutines : TestSkip(r)
    \/ \E r \in Goroutines : TestReceiveZeros(r)
    \/ HandleTestZero
    \/ \E r \in Goroutines : ZeroBegin(r)
    \/ \E r \in Goroutines, ok \in BOOLEAN, z \in ZeroVals : ZeroCollect(r, ok, z)
    \/ \E r \in Goroutines : ZeroStore(r)
    \/ \E r \in Goroutines : ZeroSend(r)

SpecTest == Init /\ [][NextTest]_vars

\* the command-line sampling: manipulateADC with an operator at the keys and
\* collectAveragedZeros, against a device that answers an iteration or not
NextAdc ==
    \/ ManipulateADCStart
    \/ \E r \in Goroutines, k \in Keys : PressKey(r, k)
    \/ \E r \in Goroutines : AdcKeyCheck(r)
    \/ \E r \in Goroutines, reads \in {AllOk, AllFail} : AdcTick(r, reads)
    \/ CollectStart
    \/ \E r \in Goroutines : CollectWarmup(r)
    \/ \E r \in Goroutines, reads \in {AllOk, AllFail} : CollectTick(r, reads)
    \/ \E r \in Goroutines, reads \in {AllOk, AllFail} : CollectAverage(r, reads)

SpecAdc == Init /\ [][NextAdc]_vars

\* the loop of manipulateADC runs on the only goroutine of the program: every
\* iteration ends (each read has a timeout, the sleep is 5 ms) and the next
\* one follows
SpecAdcLive == SpecAdc /\ WF_vars(\E r \in Goroutines : AdcStep(r))

\* one run of the command-line calibration, from the configuration file to
\* the computed factors
NextPlan ==
    \/ \E cfgOk \in BOOLEAN, nbars \in 1..CfgBars, nlcs \in 1..CfgLCs :
           CalRunrillaStart(cfgOk, nbars, nlcs)
    \/ \E r \in Goroutines, portOk \in BOOLEAN, found \in BOOLEAN : CalOpen(r, portOk, found)
    \/ \E r \in Goroutines, ok \in BOOLEAN, match \in BOOLEAN : NewLeo485(r, ok, match)
    \/ \E r \in Goroutines, answered \in BOOLEAN, moved \in BOOLEAN, ok \in BOOLEAN :
           CalProbe(r, answered, moved, ok)
    \/ \E r \in Goroutines, ok \in BOOLEAN, b \in CalReadings : ZeroCalibration(r, ok, b)
    \/ \E r \in Goroutines, ok \in BOOLEAN : WeightCalibrationSingle(r, ok)
    \/ \E r \in Goroutines, k \in Keys : CalClear(r, k)
    \/ \E r \in Goroutines, svdOk \in BOOLEAN, mulOk \in BOOLEAN : CalcZerosFactors(r, svdOk, mulOk)

SpecPlan == Init /\ [][NextPlan]_vars

\* single exchanges of the driver with a bus of two bars
NextSerial ==
    \/ \E fn \in DriverFns, id \in BarIDs : DriverCall(fn, id)
    \/ \E r \in Goroutines, a \in BarIDs :
           \E b \in Payloads(r, <<Digit0, a + Digit0>>) : DeviceAnswer(r, a, b)
    \/ \E r \in Goroutines, k \in {0, 3} : DeviceSilent(r, k)
    \/ \E r \in Goroutines, k \in 0..7 : \E j \in 1..Len(r.payload) : LineNoise(r, j, k)
    \/ \E r \in Goroutines : Receive(r)

SpecSerial == Init /\ [][NextSerial]_vars

\* port discovery on a host whose ports answer a probe or do not
NextDetect ==
    \/ \E valid \in BOOLEAN, preferred \in PreferredPorts, ports \in PortLists,
          windows \in BOOLEAN : AutoDetectPortTrace(valid, preferred, ports, windows)
    \/ \E r \in Goroutines, ok \in BOOLEAN : ProbeConfigured(r, ok)
    \/ \E r \in Goroutines, ok \in BOOLEAN : ProbeEnumerated(r, ok)
    \/ \E r \in Goroutines, ok \in BOOLEAN : ProbeScan(r, ok)

SpecDetect == Init /\ [][NextDetect]_vars
====
